---------------------------- MODULE Spec2Model ----------------------------
(***************************************************************************)
(* Model of the NextSearch engine: the three LRU caches of Engine with     *)
(* their JSON persistence, the segment manifest and segment directories,   *)
(* Engine::reload, Engine::search, the single-document append handler and  *)
(* the engine mutex.                                                       *)
(***************************************************************************)
EXTENDS Integers, Sequences, FiniteSets, TLC

(***************************************************************************)
(* Bounds of the model.                                                    *)
(***************************************************************************)
\* the capacities stand for MAX_CACHE_SIZE = 2600, MAX_AI_OVERVIEW_CACHE_SIZE
\* = 500 and MAX_AI_SUMMARY_CACHE_SIZE = 1000, scaled down
CapSearch == 2
CapOverview == 2
CapSummary == 1
NumKeys == 3
\* the (query, k) pairs sent to an AI handler
NumAiKeys == 2
\* entries of the term to score map given to AutocompleteIndex::build
MaxTrieTerms == 3
\* data rows of metadata.csv
MaxCsvRows == 3

CACHE_SAVE_INTERVAL == 1

CacheIds == {"search", "ai_overview", "ai_summary"}
AiCacheIds == {"ai_overview", "ai_summary"}
CacheKeys == 1..NumKeys
AiKeys == 1..NumAiKeys
\* two distinguishable result bodies, and the two request threads that may
\* be inside an AI handler at once
CacheResults == {"r1", "r2"}
Threads == {"t1", "t2"}
AiThreads == Threads
NoThread == "none"
\* a cache file: missing, a JSON array of items, a JSON value that is not an
\* array, or text that does not parse (an empty file is such a text).  An
\* item is an object; the items save_cache writes have the members "key" (a
\* JSON string, key_type "string") and "result"
NoFile == [kind |-> "missing", items |-> <<>>]
ArrayFile(items) == [kind |-> "array", items |-> items]
NotArrayFile == [kind |-> "not_array", items |-> <<>>]
UnparsableFile == [kind |-> "unparsable", items |-> <<>>]
NoKey == 0
\* a key whose query holds a byte that is not UTF-8
BadUtf8Key == NumKeys + 1

VARIABLES
    caches,        \* cache id -> [cache, lru_list, updates_since_save]
    cache_files,   \* cache id -> the cache's JSON file
    active,        \* the cache exercised by the cache-level specification
    aiPending,     \* AI request thread -> NoKey or the key whose lookup missed
    lastOp,        \* the cache operation just executed
    touched,       \* keys by most recent successful get or put, newest first
    manifest,      \* manifest.bin of the index directory
    dirs,          \* segment directory name -> the directory under segments/
    engine,        \* seg_names, segments, ac, uid_to_meta, sem of the Engine
    phase,         \* "down" before main() has loaded the index, then "serving"
    last,          \* the request just answered, with its response
    listChanged,   \* a successful reload has replaced the segment list by another
    faults,        \* failures of the file system so far
    mtx,           \* the thread holding Engine::mtx, or NoThread
    pc,            \* request thread -> the statement it executes next
    req,           \* request thread -> the kind of request it serves
    rewritten,     \* Engine members assigned by the reload in progress
    writer,        \* the SegmentWriter: terms, forward and inverted lists, docs
                   \* (or the locals of the handler that writes a segment itself)
    segfiles,      \* the files of the segment directory the writer writes
    seg,           \* the Segment load_segment fills from those files
    srch,          \* the locals of Engine::search while it scores and ranks
    ac,            \* the AutocompleteIndex: terms_, scores_, nodes_, max_top_
    acCall,        \* the arguments of the last build and suggest_query, and its result
    csv,           \* the bytes of metadata.csv
    uid_to_meta,   \* cord_uid -> MetaInfo, filled by load_metadata_uid_meta
    fetched,       \* whether the map is loaded; the cord_uid and row of the last fetch_metadata
    sem,           \* the SemanticIndex: enabled, terms, vecs
    semCall,       \* the arguments of the last expand and its result
    row,           \* a metadata row and the fields csv_row splits it into
    stats,         \* the StatsTracker: remaining and used AI calls, stats.json
    dec,           \* thread -> its position in decrement_ai_api_calls
    feedback,      \* the FeedbackManager: feedback_entries_, mutex_, feedback.json
    adding,        \* thread -> its position in add_feedback
    bm             \* the operands and the result of one BM25 term score

cacheVars == <<caches, cache_files, active, aiPending, lastOp, touched>>
indexVars == <<manifest, dirs, engine, phase, last, listChanged, faults>>
concVars == <<mtx, pc, req, rewritten>>
unitVars == <<writer, segfiles, seg, srch>>
toolVars == <<ac, acCall, csv, uid_to_meta, fetched>>
auxVars == <<sem, semCall, row, stats, dec, feedback, adding, bm>>
vars == <<cacheVars, indexVars, concVars, unitVars, toolVars, auxVars>>

(***************************************************************************)
(* Sequence helpers.                                                       *)
(***************************************************************************)
Range(s) == {s[i] : i \in DOMAIN s}

RemoveAt(s, p) == [i \in 1..(Len(s) - 1) |-> IF i < p THEN s[i] ELSE s[i + 1]]

Perms(S) == {f \in [1..Cardinality(S) -> S] : \A i, j \in 1..Cardinality(S) : f[i] = f[j] => i = j}

SelectKeys(s, S) == SelectSeq(s, LAMBDA x : x \in S)

(***************************************************************************)
(* The LRU cache: an unordered_map key -> CacheEntry{result, lru_iter}     *)
(* and a list of keys, most recently used at the front.  lru_iter is the   *)
(* list node of the entry, kept here as the node's position in the list.   *)
(***************************************************************************)
MAX_SIZE(c) ==
    CASE c = "search" -> CapSearch
      [] c = "ai_overview" -> CapOverview
      [] c = "ai_summary" -> CapSummary

EmptyCache == [cache |-> <<>>, lru_list |-> <<>>, updates_since_save |-> 0]

\* std::list::erase(node at position p): later nodes move one position up
lru_erase(m, p) ==
    [m EXCEPT !.lru_list = RemoveAt(m.lru_list, p),
              !.cache = [k \in DOMAIN m.cache |->
                           IF m.cache[k].lru_iter > p
                           THEN [m.cache[k] EXCEPT !.lru_iter = @ - 1]
                           ELSE m.cache[k]]]

\* std::list::push_front(key): every existing node moves one position down
lru_push_front(m, key) ==
    [m EXCEPT !.lru_list = <<key>> \o m.lru_list,
              !.cache = [k \in DOMAIN m.cache |-> [m.cache[k] EXCEPT !.lru_iter = @ + 1]]]

\* std::list::push_back(key)
lru_push_back(m, key) == [m EXCEPT !.lru_list = Append(m.lru_list, key)]

\* cache[key] = entry
map_assign(m, key, entry) ==
    [m EXCEPT !.cache = [k \in (DOMAIN m.cache) \cup {key} |->
                           IF k = key THEN entry ELSE m.cache[k]]]

\* cache.erase(key)
map_erase(m, key) ==
    [m EXCEPT !.cache = [k \in (DOMAIN m.cache) \ {key} |-> m.cache[k]]]

cache_hit(m, key) == key \in DOMAIN m.cache

\* Engine::get_from_cache: the state of the cache after the lookup
get_from_cache(m, key) ==
    IF ~cache_hit(m, key) THEN m
    ELSE LET m1 == lru_erase(m, m.cache[key].lru_iter)
             m2 == lru_push_front(m1, key)
         IN  [m2 EXCEPT !.cache[key].lru_iter = 1]

\* the json returned by get_from_cache: null on a miss, else a copy of the
\* stored result marked from_cache
get_result(m, key) ==
    IF ~cache_hit(m, key) THEN [null |-> TRUE]
    ELSE [null |-> FALSE, result |-> m.cache[key].result, from_cache |-> TRUE]

\* the bytes of the cache key "query|k" a key of the model stands for: a
\* lower-case letter, for BadUtf8Key followed by the byte 0xFF, then "|1"
key_bytes(key) ==
    IF key = BadUtf8Key THEN <<97, 255, 124, 49>> ELSE <<96 + key, 124, 49>>

\* the UTF-8 check of json::dump on a string: ASCII bytes, and lead bytes
\* followed by the continuation bytes they announce
RECURSIVE utf8_valid(_)
utf8_valid(b) ==
    LET cont(n) == /\ Len(b) >= n + 1
                   /\ \A i \in 2..(n + 1) : b[i] \in 128..191
        rest(n) == SubSeq(b, n + 2, Len(b))
    IN  IF b = <<>> THEN TRUE
        ELSE IF b[1] < 128 THEN utf8_valid(Tail(b))
        ELSE IF b[1] \in 194..223 THEN cont(1) /\ utf8_valid(rest(1))
        ELSE IF b[1] \in 224..239 THEN cont(2) /\ utf8_valid(rest(2))
        ELSE IF b[1] \in 240..244 THEN cont(3) /\ utf8_valid(rest(3))
        ELSE FALSE

\* cache_json.dump(2) returns the text unless a string of the array is not
\* UTF-8 (the key, and with it the "query" of a search result), then it throws
dump_throws(m) == \E key \in DOMAIN m.cache : ~utf8_valid(key_bytes(key))

\* Engine::save_cache: the unordered_map is serialised in its iteration
\* order `order`; nothing is written when the file cannot be opened.  The
\* file is opened, and so emptied, before dump is called: when dump throws
\* (`throws`) the file stays empty
save_cache(m, file, order, canOpen, throws) ==
    IF ~canOpen THEN file
    ELSE IF throws THEN UnparsableFile
    ELSE ArrayFile([i \in 1..Len(order) |->
                      [key |-> order[i], key_type |-> "string",
                       result |-> m.cache[order[i]].result]])

\* the eviction step of put: drop the key at the back of the LRU list
evict_lru(m) ==
    LET key_to_evict == m.lru_list[Len(m.lru_list)]
    IN  IF key_to_evict \in DOMAIN m.cache
        THEN map_erase(lru_erase(m, m.cache[key_to_evict].lru_iter), key_to_evict)
        ELSE m

\* put_in_cache without the branch for a cached key: the key is inserted as
\* if it were new
put_mem_always_insert(m, cap, key, result) ==
    LET m1 == IF Cardinality(DOMAIN m.cache) >= cap THEN evict_lru(m) ELSE m
        m2 == lru_push_front(m1, key)
        m3 == map_assign(m2, key, [result |-> result, lru_iter |-> 1])
    IN  [m3 EXCEPT !.updates_since_save = @ + 1]

\* put_in_cache with the eviction test off by one (size > MAX instead of >=)
put_mem_late_evict(m, cap, key, result) ==
    IF cache_hit(m, key)
    THEN LET m1 == lru_erase(m, m.cache[key].lru_iter)
             m2 == lru_push_front(m1, key)
         IN  [m2 EXCEPT !.cache[key] = [result |-> result, lru_iter |-> 1]]
    ELSE LET m1 == IF Cardinality(DOMAIN m.cache) > cap THEN evict_lru(m) ELSE m
             m2 == lru_push_front(m1, key)
             m3 == map_assign(m2, key, [result |-> result, lru_iter |-> 1])
         IN  [m3 EXCEPT !.updates_since_save = @ + 1]

\* Engine::put_in_cache on the in-memory cache
put_mem(m, cap, key, result) ==
    IF cache_hit(m, key)
    THEN LET m1 == lru_erase(m, m.cache[key].lru_iter)
             m2 == lru_push_front(m1, key)
         IN  [m2 EXCEPT !.cache[key] = [result |-> result, lru_iter |-> 1]]
    ELSE LET m1 == IF Cardinality(DOMAIN m.cache) >= cap THEN evict_lru(m) ELSE m
             m2 == lru_push_front(m1, key)
             m3 == map_assign(m2, key, [result |-> result, lru_iter |-> 1])
         IN  [m3 EXCEPT !.updates_since_save = @ + 1]

\* Engine::put_in_cache: st = [mem, file]; a put of a new key ends with the
\* periodic save, a put of a cached key returns before it
put_in_cache(st, cap, key, result, order, canOpen, throws) ==
    LET m == put_mem(st.mem, cap, key, result)
    IN  IF cache_hit(st.mem, key)
        THEN [mem |-> m, file |-> st.file]
        ELSE IF m.updates_since_save >= CACHE_SAVE_INTERVAL
             THEN [mem |-> [m EXCEPT !.updates_since_save = 0],
                   file |-> save_cache(m, st.file, order, canOpen, throws)]
             ELSE [mem |-> m, file |-> st.file]

\* item.contains("key") && item.contains("result")
item_complete(item) == {"key", "result"} \subseteq DOMAIN item

\* the loop of Engine::load_cache over the first n items of the array: an
\* item without "key" or "result" is skipped; the conversion of a "key" that
\* is not a JSON string to std::string throws, which ends the loop with the
\* items before it loaded
RECURSIVE load_items(_, _)
load_items(items, n) ==
    IF n = 0 THEN [m |-> EmptyCache, thrown |-> FALSE]
    ELSE LET before == load_items(items, n - 1)
             item == items[n]
             m1 == lru_push_back(before.m, item.key)
         IN  IF before.thrown \/ ~item_complete(item) THEN before
             ELSE IF item.key_type # "string" THEN [before EXCEPT !.thrown = TRUE]
             ELSE [before EXCEPT !.m =
                     map_assign(m1, item.key,
                                [result |-> item.result, lru_iter |-> Len(m1.lru_list)])]

\* Engine::load_cache: no file leaves the cache alone, and so does a file
\* that does not parse (the parser throws) or holds no array (early return);
\* otherwise the cache is cleared and refilled in file order, first item at
\* the front.  Every exception is caught inside load_cache
load_cache(m, file) ==
    IF file.kind # "array" THEN m
    ELSE [load_items(file.items, Len(file.items)).m
            EXCEPT !.updates_since_save = m.updates_since_save]

(***************************************************************************)
(* The index directory: manifest.bin and the segment directories under     *)
(* segments/.  A segment name is "seg_" followed by the digits kept here;  *)
(* a file of a segment directory is kept as the batch of documents it was  *)
(* written from, or Missing.                                               *)
(***************************************************************************)
InitSegs == 2
MaxSegs == 2
\* how many times a file or directory of the index may fail
MaxFaults == 1

\* "barrels" stands for barrels.bin with the lexicon and inverted barrel files
Files == {"stats", "docs", "forward", "terms", "barrels"}
Missing == <<>>
NoManifest == [exists |-> FALSE, names |-> <<>>]
NoDir == [exists |-> FALSE, files |-> [f \in Files |-> Missing]]

\* seg_name: the id printed with setw(6) and setfill('0')
seg_name(id) == [i \in 1..6 |-> (id \div (10 ^ (6 - i))) % 10]

DirNames == {seg_name(id) : id \in 1..MaxSegs}

\* operator< of two std::string names of equal length
name_less(a, b) ==
    \E i \in 1..6 : a[i] < b[i] /\ \A j \in 1..(i - 1) : a[j] = b[j]

\* std::sort of the scanned names
RECURSIVE sort_names(_)
sort_names(S) ==
    IF S = {} THEN <<>>
    ELSE LET m == CHOOSE x \in S : \A y \in S \ {x} : name_less(x, y)
         IN  <<m>> \o sort_names(S \ {m})

\* a missing manifest reads as the empty list
load_manifest(man) == IF man.exists THEN man.names ELSE <<>>

save_manifest(segs) == [exists |-> TRUE, names |-> segs]

Document(uid, terms) == [cord_uid |-> uid, terms |-> terms]

\* the documents of the segment the offline builder wrote into directory id
BuilderBatch(id) ==
    <<Document(<<"built", id, 0>>, {"alpha"}),
      Document(<<"built", id, 1>>, {"alpha", "beta"})>>

BuiltDir(id) == [exists |-> TRUE, files |-> [f \in Files |-> BuilderBatch(id)]]

\* the document of an add-document request, as its cord_uid and the terms
\* left after tokenization, the length filter and the stopword filter
AppendDocs == {Document(<<"added", 0, 0>>, {"alpha", "epsilon"})}

\* the cord_uids that have a row in metadata.csv
MetadataCsv == {<<"built", 1, 0>>}

\* the lexicon with the posting lists of a batch: term -> df and docIds
Lexicon(batch) ==
    [t \in UNION {batch[i].terms : i \in DOMAIN batch} |->
        LET postings == {i - 1 : i \in {j \in DOMAIN batch : t \in batch[j].terms}}
        IN  [df |-> Cardinality(postings), postings |-> postings]]

\* load_segment: false when stats.bin or docs.bin cannot be opened, or when
\* the barrel files are absent (the legacy files are then absent as well)
load_segment(name, d) ==
    LET files == d[name].files
        empty == [dir |-> name, N |-> 0, docs |-> <<>>, lex |-> <<>>]
    IN  IF ~d[name].exists \/ files["stats"] = Missing
        THEN [ok |-> FALSE, seg |-> empty]
        ELSE IF files["docs"] = Missing
        THEN [ok |-> FALSE, seg |-> [empty EXCEPT !.N = Len(files["stats"])]]
        ELSE IF files["barrels"] = Missing
        THEN [ok |-> FALSE, seg |-> [empty EXCEPT !.N = Len(files["stats"]),
                                                  !.docs = files["docs"]]]
        ELSE [ok |-> TRUE,
              seg |-> [dir |-> name, N |-> Len(files["stats"]),
                       docs |-> files["docs"], lex |-> Lexicon(files["barrels"])]]

(***************************************************************************)
(* The Engine.                                                             *)
(***************************************************************************)
EmptyEngine ==
    [seg_names |-> <<>>, segments |-> <<>>, ac |-> <<>>, uid_to_meta |-> {},
     sem_enabled |-> FALSE]

RECURSIVE sum_df(_, _, _)
sum_df(segments, term, n) ==
    IF n = 0 THEN 0
    ELSE sum_df(segments, term, n - 1)
         + (IF term \in DOMAIN segments[n].lex THEN segments[n].lex[term].df ELSE 0)

\* term_to_score of the autocomplete index: df summed over the segments
term_to_score(segments) ==
    [t \in UNION {DOMAIN segments[i].lex : i \in DOMAIN segments} |->
        sum_df(segments, t, Len(segments))]

\* the names Engine::reload assigns to seg_names: the manifest, or when that
\* is empty the directories under segments/ in sorted order
reload_names(man, d) ==
    IF load_manifest(man) # <<>> THEN load_manifest(man)
    ELSE sort_names({n \in DirNames : d[n].exists})

\* Engine::reload up to the loading of the caches: seg_names is assigned
\* first, the rest only after every listed segment has loaded
reload(e, man, d) ==
    LET names == reload_names(man, d)
        loaded == [i \in 1..Len(names) |-> load_segment(names[i], d)]
    IN  IF names = <<>> \/ \E i \in 1..Len(names) : ~loaded[i].ok
        THEN [ok |-> FALSE, engine |-> [e EXCEPT !.seg_names = names]]
        ELSE LET segments == [i \in 1..Len(names) |-> loaded[i].seg]
             IN  [ok |-> TRUE,
                  engine |-> [seg_names |-> names, segments |-> segments,
                              ac |-> term_to_score(segments),
                              uid_to_meta |-> MetadataCsv,
                              sem_enabled |-> FALSE]]

\* the tail of a successful reload: the three caches are loaded from file
reload_caches(cs, files) == [c \in CacheIds |-> load_cache(cs[c], files[c])]

StopWords ==
    {"the", "a", "an", "and", "or", "of", "to", "in", "for", "on", "with", "by",
     "as", "is", "are", "was", "were", "be", "been", "it", "this", "that",
     "from", "at"}

is_stopword(t) == t \in StopWords

clamp_k(k) == IF k < 1 THEN 1 ELSE IF k > 100 THEN 100 ELSE k

make_cache_key(query, K) == <<query, K>>

\* a query is kept as the tokens tokenize finds in it
base_terms(query) == SelectSeq(query, LAMBDA t : Len(t) >= 2 /\ ~is_stopword(t))

RECURSIVE total_found(_, _, _)
total_found(segments, terms, n) ==
    IF n = 0 THEN 0
    ELSE total_found(segments, terms, n - 1)
         + Cardinality(UNION {segments[n].lex[t].postings :
                                t \in terms \cap DOMAIN segments[n].lex})

\* the scoring part of Engine::search.  Every query of the model matches
\* fewer than K documents, so the heap keeps every match; the results are
\* kept as the set of hits.  An index past the end of seg_names or docs
\* reads whatever is there: junk.
search_index(e, query, K, junk) ==
    LET terms == Range(base_terms(query))
        out == [query |-> query, k |-> K, segments |-> Len(e.segments), results |-> {}]
        hit(i, docId) ==
            [segment |-> IF i <= Len(e.seg_names) THEN e.seg_names[i] ELSE junk.segment,
             docId |-> docId,
             cord_uid |-> IF docId + 1 <= Len(e.segments[i].docs)
                          THEN e.segments[i].docs[docId + 1].cord_uid
                          ELSE junk.cord_uid]
        matched(i) == UNION {e.segments[i].lex[t].postings :
                               t \in terms \cap DOMAIN e.segments[i].lex}
    IN  IF terms = {} \/ e.segments = <<>> THEN out
        ELSE [query |-> query, k |-> K, segments |-> Len(e.segments),
              results |-> UNION {{hit(i, docId) : docId \in matched(i)} :
                                   i \in DOMAIN e.segments},
              found |-> total_found(e.segments, terms, Len(e.segments))]

Junk == {[segment |-> n, cord_uid |-> <<"junk", 0, 0>>] : n \in DirNames}

(***************************************************************************)
(* The cache-level specification: one of the three caches (chosen at the   *)
(* start) is driven through its call sites.  The search cache is reached   *)
(* by Engine::search alone (a lookup, and on a miss a put of the same      *)
(* key); the AI caches are reached by generate_ai_overview and             *)
(* generate_ai_summary, which look the key up, release the mutex, call the *)
(* LLM and put the answer in a second critical section.                    *)
(***************************************************************************)
NoOp == [op |-> "none", key |-> NoKey, hit |-> FALSE, full |-> FALSE, result |-> "none"]

Touch(seq, key) == <<key>> \o SelectSeq(seq, LAMBDA x : x # key)

NoRequest ==
    [op |-> "none", reload |-> "none", status |-> 0, segment |-> <<>>,
     failed |-> "none", from_cache |-> FALSE, out |-> <<>>]

\* the request threads at rest, no reload in progress
ConcIdle ==
    /\ mtx = NoThread
    /\ pc = [t \in Threads |-> "idle"]
    /\ req = [t \in Threads |-> "none"]
    /\ rewritten = {}

\* no segment is being written, loaded or searched step by step
UnitIdle ==
    /\ writer = <<>>
    /\ segfiles = <<>>
    /\ seg = <<>>
    /\ srch = <<>>

\* the index side at rest, for the specifications that do not exercise it
ToolIdle ==
    /\ ac = <<>>
    /\ acCall = <<>>
    /\ csv = <<>>
    /\ uid_to_meta = <<>>
    /\ fetched = <<>>

AuxIdle ==
    /\ sem = <<>>
    /\ semCall = <<>>
    /\ row = <<>>
    /\ stats = <<>>
    /\ dec = <<>>
    /\ feedback = <<>>
    /\ adding = <<>>
    /\ bm = <<>>

IndexIdle ==
    /\ manifest = NoManifest
    /\ dirs = [n \in DirNames |-> NoDir]
    /\ engine = EmptyEngine
    /\ phase = "down"
    /\ last = NoRequest
    /\ listChanged = FALSE
    /\ faults = 0

CacheInit ==
    /\ ToolIdle
    /\ AuxIdle
    /\ caches = [c \in CacheIds |-> EmptyCache]
    /\ cache_files = [c \in CacheIds |-> NoFile]
    /\ active \in CacheIds
    /\ aiPending = [t \in AiThreads |-> NoKey]
    /\ lastOp = NoOp
    /\ touched = <<>>
    /\ IndexIdle
    /\ ConcIdle
    /\ UnitIdle

IsFull(c) == Cardinality(DOMAIN caches[c].cache) >= MAX_SIZE(c)

\* a lookup that hits: the entry moves to the front
DoGet(c, key) ==
    /\ caches' = [caches EXCEPT ![c] = get_from_cache(@, key)]
    /\ lastOp' = [op |-> "get", key |-> key, hit |-> cache_hit(caches[c], key),
                  full |-> IsFull(c), result |-> "none"]
    /\ touched' = IF cache_hit(caches[c], key) THEN Touch(touched, key) ELSE touched
    /\ UNCHANGED cache_files

\* a put, with the order in which save_cache walks the map; the cache file
\* is taken to be writable and the keys are ASCII, so dump does not throw
DoPut(c, key, result) ==
    \E canOpen \in {TRUE} :
    \E order \in Perms(DOMAIN put_mem(caches[c], MAX_SIZE(c), key, result).cache) :
        LET st == put_in_cache([mem |-> caches[c], file |-> cache_files[c]],
                               MAX_SIZE(c), key, result, order, canOpen, FALSE)
        IN  /\ caches' = [caches EXCEPT ![c] = st.mem]
            /\ cache_files' = [cache_files EXCEPT ![c] = st.file]
            /\ lastOp' = [op |-> "put", key |-> key, hit |-> cache_hit(caches[c], key),
                          full |-> IsFull(c), result |-> result]
            /\ touched' = Touch(touched, key)

\* Engine::search on the search cache: a hit returns the cached result, a
\* miss computes the result of the query over the loaded index and puts it
CacheSearch(key) ==
    /\ active = "search"
    /\ IF cache_hit(caches["search"], key)
       THEN DoGet("search", key)
       ELSE DoPut("search", key, "r1")
    /\ UNCHANGED <<active, aiPending, indexVars, concVars, toolVars, auxVars, unitVars>>

\* first critical section of generate_ai_overview / generate_ai_summary
AiLookup(t, key) ==
    /\ active \in AiCacheIds
    /\ aiPending[t] = NoKey
    /\ DoGet(active, key)
    /\ aiPending' = [aiPending EXCEPT ![t] = IF cache_hit(caches[active], key) THEN NoKey ELSE key]
    /\ UNCHANGED <<active, indexVars, concVars, toolVars, auxVars, unitVars>>

\* second critical section: the LLM answered and the answer is cached
AiStore(t) ==
    /\ active \in AiCacheIds
    /\ aiPending[t] # NoKey
    /\ \E r \in CacheResults : DoPut(active, aiPending[t], r)
    /\ aiPending' = [aiPending EXCEPT ![t] = NoKey]
    /\ UNCHANGED <<active, indexVars, concVars, toolVars, auxVars, unitVars>>

\* the LLM call failed: nothing is cached
AiFail(t) ==
    /\ active \in AiCacheIds
    /\ aiPending[t] # NoKey
    /\ aiPending' = [aiPending EXCEPT ![t] = NoKey]
    /\ lastOp' = NoOp
    /\ UNCHANGED <<caches, cache_files, active, touched, indexVars, concVars, toolVars, auxVars, unitVars>>

\* the tail of Engine::reload: the cache is loaded from its file
CacheReload ==
    /\ caches' = [caches EXCEPT ![active] = load_cache(@, cache_files[active])]
    /\ lastOp' = [NoOp EXCEPT !.op = "load"]
    /\ UNCHANGED <<cache_files, active, aiPending, touched, indexVars, concVars, toolVars, auxVars, unitVars>>

\* Engine::~Engine saves a cache that is not empty or has unsaved updates;
\* the next process starts with an empty cache and loads the file in the
\* reload of main()
CacheRestart ==
    \E canOpen \in {TRUE} :
    \E order \in Perms(DOMAIN caches[active].cache) :
        LET m == caches[active]
            saves == m.updates_since_save > 0 \/ DOMAIN m.cache # {}
            file == IF saves
                    THEN save_cache(m, cache_files[active], order, canOpen, FALSE)
                    ELSE cache_files[active]
        IN  /\ cache_files' = [cache_files EXCEPT ![active] = file]
            /\ caches' = [caches EXCEPT ![active] = load_cache(EmptyCache, file)]
            /\ aiPending' = [t \in AiThreads |-> NoKey]
            /\ lastOp' = [NoOp EXCEPT !.op = "restart"]
            /\ UNCHANGED <<active, touched, indexVars, concVars, toolVars, auxVars, unitVars>>

CacheNext ==
    \/ \E key \in CacheKeys : CacheSearch(key)
    \/ \E t \in AiThreads, key \in AiKeys : AiLookup(t, key)
    \/ \E t \in AiThreads : AiStore(t)
    \/ \E t \in AiThreads : AiFail(t)
    \/ CacheReload
    \/ CacheRestart

SpecCache == CacheInit /\ [][CacheNext]_vars

(***************************************************************************)
(* The persistence specification: one cache with its JSON file, used by    *)
(* requests, reloaded by POST /api/reload, saved and loaded across a       *)
(* restart of the server, while the file may be replaced from outside by a *)
(* file the server did not write.  A query with a byte that is not UTF-8   *)
(* reaches the search cache only: the AI handlers serialise the query for  *)
(* the LLM request before anything is cached.                              *)
(***************************************************************************)
PersistKeys == CacheKeys \cup {BadUtf8Key}

\* an item as save_cache writes it
SavedItem(key, result) == [key |-> key, key_type |-> "string", result |-> result]

\* files the server did not write: text that does not parse, a JSON object,
\* an array whose second item has a number as "key", an array whose first
\* item has no "key", and an array of well-formed items two of which have
\* the same key
DamagedFiles ==
    {UnparsableFile, NotArrayFile,
     ArrayFile(<<SavedItem(1, "r1"), [key |-> NoKey, key_type |-> "number", result |-> "r1"]>>),
     ArrayFile(<<[result |-> "r1"], SavedItem(1, "r2")>>),
     ArrayFile(<<SavedItem(1, "r1"), SavedItem(1, "r2")>>)}

PersistInit ==
    /\ ToolIdle
    /\ AuxIdle
    /\ caches = [c \in CacheIds |-> EmptyCache]
    /\ cache_files = [c \in CacheIds |-> NoFile]
    /\ active \in CacheIds
    /\ aiPending = [t \in AiThreads |-> NoKey]
    /\ lastOp = NoOp
    /\ touched = <<>>
    /\ IndexIdle
    /\ ConcIdle
    /\ UnitIdle

\* a request looks the key up and, on a miss, caches a result for it
PersistUse(key) ==
    /\ key = BadUtf8Key => active = "search"
    /\ IF cache_hit(caches[active], key)
       THEN /\ caches' = [caches EXCEPT ![active] = get_from_cache(@, key)]
            /\ lastOp' = [op |-> "get", key |-> key, hit |-> TRUE, full |-> IsFull(active),
                          result |-> "none"]
            /\ UNCHANGED cache_files
       ELSE \E result \in CacheResults :
            \E order \in Perms(DOMAIN put_mem(caches[active], MAX_SIZE(active), key, result).cache) :
                LET m == put_mem(caches[active], MAX_SIZE(active), key, result)
                    st == put_in_cache([mem |-> caches[active], file |-> cache_files[active]],
                                       MAX_SIZE(active), key, result, order, TRUE,
                                       dump_throws(m))
                IN  /\ caches' = [caches EXCEPT ![active] = st.mem]
                    /\ cache_files' = [cache_files EXCEPT ![active] = st.file]
                    /\ lastOp' = [op |-> "put", key |-> key, hit |-> FALSE,
                                  full |-> IsFull(active), result |-> result]
    /\ touched' = Touch(touched, key)
    /\ UNCHANGED <<active, aiPending, indexVars, concVars, toolVars, auxVars, unitVars>>

\* the tail of Engine::reload: the cache is loaded from its file
PersistReload ==
    /\ caches' = [caches EXCEPT ![active] = load_cache(@, cache_files[active])]
    /\ lastOp' = [NoOp EXCEPT !.op = "load"]
    /\ UNCHANGED <<cache_files, active, aiPending, touched, indexVars, concVars, toolVars, auxVars, unitVars>>

\* Engine::~Engine saves the cache, the next process loads the file into an
\* empty cache
PersistRestart ==
    \E order \in Perms(DOMAIN caches[active].cache) :
        LET m == caches[active]
            saves == m.updates_since_save > 0 \/ DOMAIN m.cache # {}
            file == IF saves
                    THEN save_cache(m, cache_files[active], order, TRUE, dump_throws(m))
                    ELSE cache_files[active]
        IN  /\ cache_files' = [cache_files EXCEPT ![active] = file]
            /\ caches' = [caches EXCEPT ![active] = load_cache(EmptyCache, file)]
            /\ lastOp' = [NoOp EXCEPT !.op = "restart"]
            /\ UNCHANGED <<active, aiPending, touched, indexVars, concVars, toolVars, auxVars, unitVars>>

\* the environment: the cache file is replaced
FileDamaged(file) ==
    /\ cache_files[active] # file
    /\ cache_files' = [cache_files EXCEPT ![active] = file]
    /\ lastOp' = [NoOp EXCEPT !.op = "damage"]
    /\ UNCHANGED <<caches, active, aiPending, touched, indexVars, concVars, toolVars, auxVars, unitVars>>

PersistNext ==
    \/ \E key \in PersistKeys : PersistUse(key)
    \/ PersistReload
    \/ PersistRestart
    \/ \E file \in DamagedFiles : FileDamaged(file)

SpecPersist == PersistInit /\ [][PersistNext]_vars

(***************************************************************************)
(* The SegmentWriter and the files of a segment directory.  A file is kept *)
(* as the sequence of the values written to it (u32 and u64 numbers, f32   *)
(* avgdl, length-prefixed strings); a posting takes two u32, so the byte   *)
(* offset of the value at index i of an inverted barrel file is 4 * i.     *)
(***************************************************************************)
\* BARREL_COUNT stands for the 64 barrels of barrels.hpp, scaled down
BARREL_COUNT == 2
MaxDocs == 2

WriterTerms == {"alpha", "beta", "gamma"}
\* a document lists fewer terms than the vocabulary holds
MaxTermsPerDoc == Cardinality(WriterTerms) - 1
TermFreqValues == {1, 2}

NoSuchFile == [exists |-> FALSE, data |-> <<>>]
FileOf(data) == [exists |-> TRUE, data |-> data]

\* the term_freqs a caller passes to add_document: (term, tf) pairs, every
\* term at most once
TermFreqs ==
    UNION {{tfs \in [1..n -> WriterTerms \X TermFreqValues] :
              \A i, j \in 1..n : tfs[i][1] = tfs[j][1] => i = j} :
           n \in 0..MaxTermsPerDoc}

RECURSIVE sum_tf(_, _)
sum_tf(term_freqs, n) == IF n = 0 THEN 0 ELSE sum_tf(term_freqs, n - 1) + term_freqs[n][2]

\* the DocMeta of the next document: its identifier and its length in tokens
DocMeta(docId, term_freqs) ==
    [cord_uid |-> <<"doc", docId>>, title |-> "t", json_relpath |-> "p",
     doc_len |-> sum_tf(term_freqs, Len(term_freqs))]

EmptyWriter ==
    [term_to_id |-> <<>>, id_to_term |-> <<>>, forward |-> <<>>, inverted |-> <<>>,
     docs |-> <<>>, total_len |-> 0]

\* intern_term without the lookup: every call makes a new id
intern_term_no_lookup(w, term) ==
    LET id == Len(w.id_to_term)
    IN  [w |-> [w EXCEPT !.term_to_id = [t \in (DOMAIN w.term_to_id) \cup {term} |->
                                            IF t = term THEN id ELSE w.term_to_id[t]],
                         !.id_to_term = Append(@, term),
                         !.inverted = Append(@, <<>>)],
         id |-> id]

\* SegmentWriter::intern_term: the writer after the call and the id returned;
\* ids count from 0, id_to_term[id + 1] is the term of id
intern_term(w, term) ==
    IF term \in DOMAIN w.term_to_id
    THEN [w |-> w, id |-> w.term_to_id[term]]
    ELSE LET id == Len(w.id_to_term)
         IN  [w |-> [w EXCEPT !.term_to_id = [t \in (DOMAIN w.term_to_id) \cup {term} |->
                                                 IF t = term THEN id ELSE w.term_to_id[t]],
                              !.id_to_term = Append(@, term),
                              !.inverted = Append(@, <<>>)],
              id |-> id]

\* operator< of std::pair<uint32_t, uint32_t>
pair_less(a, b) == a[1] < b[1] \/ (a[1] = b[1] /\ a[2] < b[2])

\* the forward list left in the order of term_freqs
sort_pairs_unsorted(fwd) == fwd

\* std::sort of the forward list of a document
RECURSIVE sort_pairs(_)
sort_pairs(fwd) ==
    IF fwd = <<>> THEN <<>>
    ELSE LET i == CHOOSE i \in DOMAIN fwd : \A j \in DOMAIN fwd : ~pair_less(fwd[j], fwd[i])
         IN  <<fwd[i]>> \o sort_pairs(RemoveAt(fwd, i))

\* the loop of add_document over the first n entries of term_freqs
RECURSIVE add_terms(_, _, _, _)
add_terms(w, docId, term_freqs, n) ==
    IF n = 0 THEN [w |-> w, fwd |-> <<>>]
    ELSE LET before == add_terms(w, docId, term_freqs, n - 1)
             interned == intern_term(before.w, term_freqs[n][1])
             tid == interned.id
             tf == term_freqs[n][2]
         IN  [w |-> [interned.w EXCEPT !.inverted[tid + 1] =
                                          Append(@, [docId |-> docId, tf |-> tf])],
              fwd |-> Append(before.fwd, <<tid, tf>>)]

\* SegmentWriter::add_document
add_document(w, meta, term_freqs) ==
    LET docId == Len(w.docs)
        w1 == [w EXCEPT !.docs = Append(@, meta), !.total_len = @ + meta.doc_len]
        added == add_terms(w1, docId, term_freqs, Len(term_freqs))
    IN  [added.w EXCEPT !.forward = Append(@, sort_pairs(added.fwd))]

\* BarrelParams as write_segment computes them for tcount terms
barrel_params(tcount) ==
    LET per == (tcount + BARREL_COUNT - 1) \div BARREL_COUNT
    IN  [barrel_count |-> BARREL_COUNT,
         terms_per_barrel |-> IF per = 0 THEN 1 ELSE per]

\* barrel_for_term with the barrel taken modulo the barrel count
barrel_for_term_modulo(termId, p) == termId % p.barrel_count

\* barrel_for_term: range partition by termId, the last barrel takes the rest
barrel_for_term(termId, p) ==
    IF p.terms_per_barrel = 0 THEN 0
    ELSE LET b == termId \div p.terms_per_barrel
         IN  IF b >= p.barrel_count THEN p.barrel_count - 1 ELSE b

\* std::sort of a posting list by docId
RECURSIVE sort_postings(_)
sort_postings(plist) ==
    IF plist = <<>> THEN <<>>
    ELSE LET i == CHOOSE i \in DOMAIN plist :
                     \A j \in DOMAIN plist : plist[i].docId <= plist[j].docId
         IN  <<plist[i]>> \o sort_postings(RemoveAt(plist, i))

\* the values of a posting list in an inverted barrel file
RECURSIVE posting_values(_)
posting_values(plist) ==
    IF plist = <<>> THEN <<>>
    ELSE <<plist[1].docId, plist[1].tf>> \o posting_values(Tail(plist))

\* the offset of the next posting list of a barrel, each list taken as one posting
next_offset_one_posting(offset, df) == offset + 8

\* offsets[b] += df * (sizeof(uint32_t) * 2)
next_offset(offset, df) == offset + df * 8

\* the loop of write_segment over the term ids 0 .. n - 1: the lexicon and
\* inverted file of every barrel, the running offsets and the term counts
RECURSIVE write_barrels(_, _, _)
write_barrels(w, bp, n) ==
    IF n = 0
    THEN [lex |-> [b \in 1..bp.barrel_count |-> <<0>>],
          inv |-> [b \in 1..bp.barrel_count |-> <<>>],
          offsets |-> [b \in 1..bp.barrel_count |-> 0],
          barrel_term_counts |-> [b \in 1..bp.barrel_count |-> 0]]
    ELSE LET st == write_barrels(w, bp, n - 1)
             tid == n - 1
             plist == sort_postings(w.inverted[tid + 1])
             df == Len(plist)
             b == barrel_for_term(tid, bp) + 1
         IN  IF w.inverted[tid + 1] = <<>> THEN st
             ELSE [lex |-> [st.lex EXCEPT ![b] =
                              @ \o <<w.id_to_term[tid + 1], tid, df, st.offsets[b], df>>],
                   inv |-> [st.inv EXCEPT ![b] = @ \o posting_values(plist)],
                   offsets |-> [st.offsets EXCEPT ![b] = next_offset(@, df)],
                   barrel_term_counts |-> [st.barrel_term_counts EXCEPT ![b] = @ + 1]]

RECURSIVE docs_values(_)
docs_values(docs) ==
    IF docs = <<>> THEN <<>>
    ELSE <<docs[1].cord_uid, docs[1].title, docs[1].json_relpath, docs[1].doc_len>>
           \o docs_values(Tail(docs))

RECURSIVE pair_values(_)
pair_values(fwd) ==
    IF fwd = <<>> THEN <<>> ELSE <<fwd[1][1], fwd[1][2]>> \o pair_values(Tail(fwd))

RECURSIVE forward_values(_)
forward_values(forward) ==
    IF forward = <<>> THEN <<>>
    ELSE <<Len(forward[1])>> \o pair_values(forward[1]) \o forward_values(Tail(forward))

\* a segment directory without files
NoSegFiles ==
    [stats |-> NoSuchFile, docs |-> NoSuchFile, forward |-> NoSuchFile,
     terms |-> NoSuchFile, barrels |-> NoSuchFile,
     lexicon |-> [b \in 1..BARREL_COUNT |-> NoSuchFile],
     inverted |-> [b \in 1..BARREL_COUNT |-> NoSuchFile],
     lexicon_bin |-> NoSuchFile, inverted_bin |-> NoSuchFile]

\* SegmentWriter::write_segment: avgdl is kept as the pair (total_len, number
\* of documents) it is the quotient of, 0 for no documents; the term count
\* of every lexicon file is patched into its first value at the end
write_segment(w) ==
    LET avgdl == IF w.docs = <<>> THEN 0 ELSE <<w.total_len, Len(w.docs)>>
        bp == barrel_params(Len(w.id_to_term))
        st == write_barrels(w, bp, Len(w.id_to_term))
    IN  [stats |-> FileOf(<<Len(w.docs), avgdl>>),
         docs |-> FileOf(<<Len(w.docs)>> \o docs_values(w.docs)),
         forward |-> FileOf(<<Len(w.forward)>> \o forward_values(w.forward)),
         terms |-> FileOf(<<Len(w.id_to_term)>> \o w.id_to_term),
         barrels |-> FileOf(<<bp.barrel_count, bp.terms_per_barrel>>),
         lexicon |-> [b \in 1..bp.barrel_count |->
                        FileOf([st.lex[b] EXCEPT ![1] = st.barrel_term_counts[b]])],
         inverted |-> [b \in 1..bp.barrel_count |-> FileOf(st.inv[b])],
         lexicon_bin |-> NoSuchFile, inverted_bin |-> NoSuchFile]

(***************************************************************************)
(* load_segment over the files of a segment directory.  A read past the    *)
(* end of a file fails and leaves the value read into uninitialised: the   *)
(* value is `junk`.                                                        *)
(***************************************************************************)
JunkValues == {[u32 |-> n, str |-> "junk"] : n \in {0, 2}}

\* read_u32, read_u64, read_f32, read_string of the value at index pos
read_value(data, pos, junk) == IF pos <= Len(data) THEN data[pos] ELSE junk

file_at(files, b) == IF b \in DOMAIN files THEN files[b] ELSE NoSuchFile

EmptySegment ==
    [N |-> 0, avgdl |-> 0, docs |-> <<>>, lex |-> <<>>, use_barrels |-> FALSE,
     barrel_params |-> [barrel_count |-> BARREL_COUNT, terms_per_barrel |-> 0],
     inv_barrels |-> <<>>, inv |-> NoSuchFile]

\* unordered_map::emplace: an entry of the same term is kept
lex_emplace(lex, term, e) ==
    IF term \in DOMAIN lex THEN lex
    ELSE [t \in (DOMAIN lex) \cup {term} |-> IF t = term THEN e ELSE lex[t]]

\* the loop of load_segment_barrels over the first n entries of lexicon file b
RECURSIVE load_lex_entries(_, _, _, _, _)
load_lex_entries(lex, data, b, n, junk) ==
    IF n = 0 THEN lex
    ELSE LET at == 5 * (n - 1) + 1
             term == read_value(data, at + 1, junk.str)
             e == [termId |-> read_value(data, at + 2, junk.u32),
                   df |-> read_value(data, at + 3, junk.u32),
                   offset |-> read_value(data, at + 4, junk.u32),
                   count |-> read_value(data, at + 5, junk.u32),
                   barrelId |-> b]
         IN  lex_emplace(load_lex_entries(lex, data, b, n - 1, junk), term, e)

\* the loop of load_segment_barrels over the lexicon files of barrels 0 .. n - 1
RECURSIVE load_lex_barrels(_, _, _)
load_lex_barrels(files, n, junk) ==
    IF n = 0 THEN [ok |-> TRUE, lex |-> <<>>]
    ELSE LET before == load_lex_barrels(files, n - 1, junk)
             in == file_at(files.lexicon, n)
             tcount == read_value(in.data, 1, junk.u32)
         IN  IF ~before.ok THEN before
             ELSE IF ~in.exists THEN [before EXCEPT !.ok = FALSE]
             ELSE [before EXCEPT !.lex = load_lex_entries(@, in.data, n - 1, tcount, junk)]

\* load_segment_barrels
load_segment_barrels(files, s, junk) ==
    LET bp == [barrel_count |-> read_value(files.barrels.data, 1, junk.u32),
               terms_per_barrel |-> read_value(files.barrels.data, 2, junk.u32)]
        s1 == [s EXCEPT !.use_barrels = TRUE]
        s2 == [s1 EXCEPT !.barrel_params = bp,
                         !.inv_barrels = [b \in 1..bp.barrel_count |->
                                            file_at(files.inverted, b)]]
        loaded == load_lex_barrels(files, bp.barrel_count, junk)
    IN  IF ~files.barrels.exists THEN [ok |-> FALSE, seg |-> s1]
        ELSE IF \E b \in 1..bp.barrel_count : ~file_at(files.inverted, b).exists
        THEN [ok |-> FALSE, seg |-> s2]
        ELSE [ok |-> loaded.ok, seg |-> [s2 EXCEPT !.lex = loaded.lex]]

\* has_barrels: barrels.bin and the files of barrel 0 exist
has_barrels(files) ==
    files.barrels.exists /\ files.inverted[1].exists /\ files.lexicon[1].exists

\* load_segment_legacy: lexicon.bin, then the stream of inverted.bin
load_segment_legacy(files, s, junk) ==
    LET tcount == read_value(files.lexicon_bin.data, 1, junk.u32)
        s1 == [s EXCEPT !.lex = load_lex_entries(<<>>, files.lexicon_bin.data, 0, tcount, junk),
                        !.inv = files.inverted_bin,
                        !.use_barrels = FALSE]
    IN  IF ~files.lexicon_bin.exists THEN [ok |-> FALSE, seg |-> s]
        ELSE [ok |-> files.inverted_bin.exists, seg |-> s1]

\* load_segment in which a failed barrelized load goes on to the legacy files
load_segment_files_fallback(files, junk) ==
    LET s1 == [EmptySegment EXCEPT !.N = read_value(files.stats.data, 1, junk.u32),
                                   !.avgdl = read_value(files.stats.data, 2, junk.u32)]
        n == read_value(files.docs.data, 1, junk.u32)
        s2 == [s1 EXCEPT !.docs =
                 [i \in 1..n |->
                    [cord_uid |-> read_value(files.docs.data, 4 * (i - 1) + 2, junk.str),
                     doc_len |-> read_value(files.docs.data, 4 * (i - 1) + 5, junk.u32)]]]
    IN  IF ~files.stats.exists THEN [ok |-> FALSE, seg |-> EmptySegment]
        ELSE IF ~files.docs.exists THEN [ok |-> FALSE, seg |-> s1]
        ELSE IF has_barrels(files) /\ load_segment_barrels(files, s2, junk).ok
        THEN load_segment_barrels(files, s2, junk)
        ELSE load_segment_legacy(files, s2, junk)

\* load_segment of src/api_segment.cpp
load_segment_files(files, junk) ==
    LET s1 == [EmptySegment EXCEPT !.N = read_value(files.stats.data, 1, junk.u32),
                                   !.avgdl = read_value(files.stats.data, 2, junk.u32)]
        n == read_value(files.docs.data, 1, junk.u32)
        s2 == [s1 EXCEPT !.docs =
                 [i \in 1..n |->
                    [cord_uid |-> read_value(files.docs.data, 4 * (i - 1) + 2, junk.str),
                     doc_len |-> read_value(files.docs.data, 4 * (i - 1) + 5, junk.u32)]]]
    IN  IF ~files.stats.exists THEN [ok |-> FALSE, seg |-> EmptySegment]
        ELSE IF ~files.docs.exists THEN [ok |-> FALSE, seg |-> s1]
        ELSE IF has_barrels(files) THEN load_segment_barrels(files, s2, junk)
        ELSE load_segment_legacy(files, s2, junk)

\* the postings Engine::search reads for lexicon entry e: count pairs from
\* byte offset e.offset of the open inverted file of barrel e.barrelId
read_postings(inv_barrels, e, junk) ==
    LET data == inv_barrels[e.barrelId + 1].data
        at == e.offset \div 4
    IN  [i \in 1..e.count |->
           [docId |-> read_value(data, at + 2 * i - 1, junk.u32),
            tf |-> read_value(data, at + 2 * i, junk.u32)]]

(***************************************************************************)
(* The segment specification: documents are given to a SegmentWriter, the  *)
(* segment is written and then loaded by load_segment.                     *)
(***************************************************************************)
NotLoaded == [state |-> "none"]

WriterInit ==
    /\ ToolIdle
    /\ AuxIdle
    /\ caches = [c \in CacheIds |-> EmptyCache]
    /\ cache_files = [c \in CacheIds |-> NoFile]
    /\ active = "search"
    /\ aiPending = [t \in AiThreads |-> NoKey]
    /\ lastOp = NoOp
    /\ touched = <<>>
    /\ IndexIdle
    /\ ConcIdle
    /\ writer = EmptyWriter
    /\ segfiles = NoSegFiles
    /\ seg = NotLoaded
    /\ srch = <<>>

\* the builder adds a document
WriterAddDocument(term_freqs) ==
    /\ segfiles = NoSegFiles
    /\ Len(writer.docs) < MaxDocs
    /\ writer' = add_document(writer, DocMeta(Len(writer.docs), term_freqs), term_freqs)
    /\ UNCHANGED <<segfiles, seg, srch, cacheVars, indexVars, concVars, toolVars, auxVars>>

\* the builder writes the segment
WriteSegment ==
    /\ segfiles = NoSegFiles
    /\ segfiles' = write_segment(writer)
    /\ UNCHANGED <<writer, seg, srch, cacheVars, indexVars, concVars, toolVars, auxVars>>

\* the engine loads the segment
LoadSegment ==
    /\ segfiles # NoSegFiles
    /\ seg = NotLoaded
    /\ \E junk \in JunkValues :
          LET r == load_segment_files(segfiles, junk)
          IN  seg' = [state |-> "loaded", ok |-> r.ok, s |-> r.seg]
    /\ UNCHANGED <<writer, segfiles, srch, cacheVars, indexVars, concVars, toolVars, auxVars>>

\* a file without its last value: the file ends inside its last record
cut_short(file) == FileOf(SubSeq(file.data, 1, Len(file.data) - 1))

\* the environment: stats.bin, docs.bin or a lexicon file of the written
\* segment ends early (a write or a copy of the file was cut off)
TruncateStats ==
    /\ segfiles = write_segment(writer)
    /\ seg = NotLoaded
    /\ segfiles' = [segfiles EXCEPT !.stats = cut_short(@)]
    /\ UNCHANGED <<writer, seg, srch, cacheVars, indexVars, concVars, toolVars, auxVars>>

TruncateDocs ==
    /\ segfiles = write_segment(writer)
    /\ seg = NotLoaded
    /\ segfiles' = [segfiles EXCEPT !.docs = cut_short(@)]
    /\ UNCHANGED <<writer, seg, srch, cacheVars, indexVars, concVars, toolVars, auxVars>>

TruncateLexicon(b) ==
    /\ segfiles = write_segment(writer)
    /\ seg = NotLoaded
    /\ segfiles' = [segfiles EXCEPT !.lexicon[b] = cut_short(@)]
    /\ UNCHANGED <<writer, seg, srch, cacheVars, indexVars, concVars, toolVars, auxVars>>

\* the environment: docs.bin is the complete docs.bin of a segment with one
\* document less than stats.bin counts
StaleDocs ==
    /\ segfiles = write_segment(writer)
    /\ seg = NotLoaded
    /\ writer.docs # <<>>
    /\ LET fewer == SubSeq(writer.docs, 1, Len(writer.docs) - 1)
       IN  segfiles' = [segfiles EXCEPT !.docs = FileOf(<<Len(fewer)>> \o docs_values(fewer))]
    /\ UNCHANGED <<writer, seg, srch, cacheVars, indexVars, concVars, toolVars, auxVars>>

WriterNext ==
    \/ \E term_freqs \in TermFreqs : WriterAddDocument(term_freqs)
    \/ WriteSegment
    \/ LoadSegment

SpecWriter == WriterInit /\ [][WriterNext]_vars

\* the same with the files of the segment damaged between write and load
LoaderNext ==
    \/ \E term_freqs \in TermFreqs : WriterAddDocument(term_freqs)
    \/ WriteSegment
    \/ LoadSegment
    \/ TruncateStats
    \/ TruncateDocs
    \/ \E b \in 1..BARREL_COUNT : TruncateLexicon(b)
    \/ StaleDocs

SpecLoader == WriterInit /\ [][LoaderNext]_vars

(***************************************************************************)
(* The append specification: handle_add_document writes the segment of one *)
(* document itself, without a SegmentWriter, and Engine::reload loads it.  *)
(* The document is given by tf, the frequency of each of its indexable     *)
(* terms; the handler numbers the terms in the iteration order of its      *)
(* unordered_map.                                                          *)
(***************************************************************************)
\* the tf maps of the documents with at least one indexable token
AppendTfs ==
    UNION {[terms -> TermFreqValues] : terms \in (SUBSET WriterTerms) \ {{}}}

RECURSIVE sum_map(_, _)
sum_map(tf, terms) ==
    IF terms = {} THEN 0
    ELSE LET t == CHOOSE t \in terms : TRUE IN tf[t] + sum_map(tf, terms \ {t})

\* the loop of handle_add_document over tf in iteration order `order`, and
\* the sort of fwd
assign_term_ids(tf, order) ==
    [id_to_term |-> order,
     fwd |-> sort_pairs([i \in 1..Len(order) |-> <<i - 1, tf[order[i]]>>])]

\* tf_by_tid of write_barrelized_index_files_single_doc: the tf of the last
\* pair of fwd with this termId, 0 without one
tf_by_tid(fwd, tid) ==
    LET mine == {i \in DOMAIN fwd : fwd[i][1] = tid}
    IN  IF mine = {} THEN 0
        ELSE fwd[CHOOSE i \in mine : \A j \in mine : j <= i][2]

\* the single-document loop with each posting put at offset 0
RECURSIVE write_single_doc_barrels_offset_zero(_, _, _, _)
write_single_doc_barrels_offset_zero(id_to_term, fwd, bp, n) ==
    IF n = 0
    THEN [lex |-> [b \in 1..bp.barrel_count |-> <<0>>],
          inv |-> [b \in 1..bp.barrel_count |-> <<>>],
          offsets |-> [b \in 1..bp.barrel_count |-> 0],
          barrel_term_counts |-> [b \in 1..bp.barrel_count |-> 0]]
    ELSE LET st == write_single_doc_barrels_offset_zero(id_to_term, fwd, bp, n - 1)
             tid == n - 1
             tfv == tf_by_tid(fwd, tid)
             b == barrel_for_term(tid, bp) + 1
         IN  IF tfv = 0 THEN st
             ELSE [lex |-> [st.lex EXCEPT ![b] = @ \o <<id_to_term[tid + 1], tid, 1, 0, 1>>],
                   inv |-> [st.inv EXCEPT ![b] = @ \o <<0, tfv>>],
                   offsets |-> st.offsets,
                   barrel_term_counts |-> [st.barrel_term_counts EXCEPT ![b] = @ + 1]]

\* the loop of write_barrelized_index_files_single_doc over the term ids
\* 0 .. n - 1: one lexicon entry with df = count = 1 and one posting
\* (docId 0, tf) per term
RECURSIVE write_single_doc_barrels(_, _, _, _)
write_single_doc_barrels(id_to_term, fwd, bp, n) ==
    IF n = 0
    THEN [lex |-> [b \in 1..bp.barrel_count |-> <<0>>],
          inv |-> [b \in 1..bp.barrel_count |-> <<>>],
          offsets |-> [b \in 1..bp.barrel_count |-> 0],
          barrel_term_counts |-> [b \in 1..bp.barrel_count |-> 0]]
    ELSE LET st == write_single_doc_barrels(id_to_term, fwd, bp, n - 1)
             tid == n - 1
             tfv == tf_by_tid(fwd, tid)
             b == barrel_for_term(tid, bp) + 1
         IN  IF tfv = 0 THEN st
             ELSE [lex |-> [st.lex EXCEPT ![b] =
                              @ \o <<id_to_term[tid + 1], tid, 1, st.offsets[b], 1>>],
                   inv |-> [st.inv EXCEPT ![b] = @ \o <<0, tfv>>],
                   offsets |-> [st.offsets EXCEPT ![b] = @ + 8],
                   barrel_term_counts |-> [st.barrel_term_counts EXCEPT ![b] = @ + 1]]

\* the files handle_add_document writes into the new segment directory:
\* docs.bin, stats.bin (1, (float)doc_len), forward.bin, terms.bin and the
\* barrel files of write_barrelized_index_files_single_doc
single_doc_files(meta, doc_len, id_to_term, fwd) ==
    LET bp == barrel_params(Len(id_to_term))
        st == write_single_doc_barrels(id_to_term, fwd, bp, Len(id_to_term))
    IN  [stats |-> FileOf(<<1, <<doc_len, 1>>>>),
         docs |-> FileOf(<<1, meta.cord_uid, meta.title, meta.json_relpath, doc_len>>),
         forward |-> FileOf(<<1, Len(fwd)>> \o pair_values(fwd)),
         terms |-> FileOf(<<Len(id_to_term)>> \o id_to_term),
         barrels |-> FileOf(<<bp.barrel_count, bp.terms_per_barrel>>),
         lexicon |-> [b \in 1..bp.barrel_count |->
                        FileOf([st.lex[b] EXCEPT ![1] = st.barrel_term_counts[b]])],
         inverted |-> [b \in 1..bp.barrel_count |-> FileOf(st.inv[b])],
         lexicon_bin |-> NoSuchFile, inverted_bin |-> NoSuchFile]

NoAppend == [tf |-> <<>>, doc_len |-> 0, id_to_term |-> <<>>, fwd |-> <<>>]

AppendInit ==
    /\ ToolIdle
    /\ AuxIdle
    /\ caches = [c \in CacheIds |-> EmptyCache]
    /\ cache_files = [c \in CacheIds |-> NoFile]
    /\ active = "search"
    /\ aiPending = [t \in AiThreads |-> NoKey]
    /\ lastOp = NoOp
    /\ touched = <<>>
    /\ IndexIdle
    /\ ConcIdle
    /\ writer = NoAppend
    /\ segfiles = NoSegFiles
    /\ seg = NotLoaded
    /\ srch = <<>>

\* handle_add_document for a document with term frequencies tf, accepted:
\* the terms are numbered and the files of the segment are written
AppendDocument(tf, order) ==
    /\ segfiles = NoSegFiles
    /\ LET doc_len == sum_map(tf, DOMAIN tf)
           ids == assign_term_ids(tf, order)
       IN  /\ writer' = [tf |-> tf, doc_len |-> doc_len,
                         id_to_term |-> ids.id_to_term, fwd |-> ids.fwd]
           /\ segfiles' = single_doc_files(DocMeta(0, <<>>), doc_len, ids.id_to_term, ids.fwd)
    /\ UNCHANGED <<seg, srch, cacheVars, indexVars, concVars, toolVars, auxVars>>

\* the reload that follows: load_segment on the new directory
AppendReload ==
    /\ segfiles # NoSegFiles
    /\ seg = NotLoaded
    /\ \E junk \in JunkValues :
          LET r == load_segment_files(segfiles, junk)
          IN  seg' = [state |-> "loaded", ok |-> r.ok, s |-> r.seg]
    /\ UNCHANGED <<writer, segfiles, srch, cacheVars, indexVars, concVars, toolVars, auxVars>>

AppendNext ==
    \/ \E tf \in AppendTfs : \E order \in Perms(DOMAIN tf) : AppendDocument(tf, order)
    \/ AppendReload

SpecAppend == AppendInit /\ [][AppendNext]_vars

(***************************************************************************)
(* The slice specification: the slice upload builds a segment from the     *)
(* rows of an uploaded metadata.csv (one document per accepted row) and    *)
(* the engine loads it.  The builder keeps the same terms, forward lists   *)
(* and documents as a SegmentWriter; it differs in the stats.bin it        *)
(* writes.                                                                 *)
(***************************************************************************)
\* sumdl: the sum of the doc_len of docs
RECURSIVE SumDocLen(_)
SumDocLen(docs) == IF docs = <<>> THEN 0 ELSE docs[1].doc_len + SumDocLen(Tail(docs))

\* stats.bin of build_forward_terms_docs_stats_from_slice: N, one f32
\* doc_len per document, then avgdl
slice_stats(docs) ==
    <<Len(docs)>> \o [i \in DOMAIN docs |-> <<docs[i].doc_len, 1>>]
                  \o <<IF docs = <<>> THEN 0 ELSE <<SumDocLen(docs), Len(docs)>>>>

\* the files of the slice builder: docs.bin, stats.bin, forward.bin and
\* terms.bin, then the barrels of build_barrelized_lexicon_from_forward
slice_files(w) ==
    [write_segment(w) EXCEPT !.stats = FileOf(slice_stats(w.docs))]

\* one accepted row of metadata.csv: a document with at least one indexable
\* token
SliceAddRow(term_freqs) ==
    /\ segfiles = NoSegFiles
    /\ Len(writer.docs) < MaxDocs
    /\ term_freqs # <<>>
    /\ writer' = add_document(writer, DocMeta(Len(writer.docs), term_freqs), term_freqs)
    /\ UNCHANGED <<segfiles, seg, srch, cacheVars, indexVars, concVars, toolVars, auxVars>>

\* the end of the rows: the files are written unless no document was parsed
SliceWrite ==
    /\ segfiles = NoSegFiles
    /\ writer.docs # <<>>
    /\ segfiles' = slice_files(writer)
    /\ UNCHANGED <<writer, seg, srch, cacheVars, indexVars, concVars, toolVars, auxVars>>

SliceNext ==
    \/ \E term_freqs \in TermFreqs : SliceAddRow(term_freqs)
    \/ SliceWrite
    \/ LoadSegment

SpecSlice == WriterInit /\ [][SliceNext]_vars

(***************************************************************************)
(* The autocomplete specification: AutocompleteIndex::build over a term to *)
(* score map, then suggest_query.  A string is the sequence of its         *)
(* characters.                                                             *)
(***************************************************************************)
isalnum(c) == c \in {"a", "b", "A"}
tolower(c) == IF c = "A" THEN "a" ELSE c
\* the byte of a character, which orders std::string
char_byte(c) ==
    CASE c = " " -> 32 [] c = "-" -> 45 [] c = "A" -> 65 [] c = "a" -> 97 [] c = "b" -> 98

\* the keys of the term to score map: terms that are normalized already, terms that
\* normalize to the same string, and terms too short once normalized
RawTerms ==
    {<<"a", "b">>, <<"A", "b">>, <<"a", "-", "b">>, <<"a", "b", "b">>, <<"a", "b", "a">>,
     <<"a", "a", "b">>, <<"b", "a">>, <<"a">>, <<"b", "-">>}
TrieScores == {1, 2}
TermToScores ==
    UNION {[keys -> TrieScores] :
             keys \in {K \in SUBSET RawTerms : Cardinality(K) <= MaxTrieTerms}}
\* max_candidates_per_prefix of build, limit of suggest_query
CandidateCaps == {0, 1, 2}
SuggestLimits == {0, 1, 3}
UserInputs ==
    {<<>>, <<"a">>, <<"b">>, <<"a", "b">>, <<"a", "b", "b">>, <<"b", "b">>, <<"A">>,
     <<"b", " ", "a">>, <<"a", "-">>}

normalize_token(s) ==
    LET kept == SelectSeq(s, isalnum)
    IN  [i \in DOMAIN kept |-> tolower(kept[i])]

\* a < b of std::string
string_less(a, b) ==
    \E i \in 1..Len(b) :
       /\ \A j \in 1..(i - 1) : j <= Len(a) /\ a[j] = b[j]
       /\ (i > Len(a) \/ char_byte(a[i]) < char_byte(b[i]))

\* the comparator of update_top and of build: score descending, then term
cand_before(a, b, terms_) ==
    IF a.score # b.score THEN a.score > b.score
    ELSE string_less(terms_[a.term_index + 1], terms_[b.term_index + 1])

\* std::stable_sort with cand_before
RECURSIVE stable_sort_cands(_, _)
stable_sort_cands(top, terms_) ==
    IF top = <<>> THEN <<>>
    ELSE LET rest == stable_sort_cands(SubSeq(top, 1, Len(top) - 1), terms_)
             c == top[Len(top)]
             k == Cardinality({i \in DOMAIN rest : ~cand_before(c, rest[i], terms_)})
         IN  SubSeq(rest, 1, k) \o <<c>> \o SubSeq(rest, k + 1, Len(rest))

\* the candidate merged into top as update_top does before it sorts
merge_cand(top, c) ==
    LET same == {i \in DOMAIN top : top[i].term_index = c.term_index}
    IN  IF same = {} THEN Append(top, c)
        ELSE LET i == CHOOSE i \in same : \A j \in same : i <= j
             IN  [top EXCEPT ![i].score = IF c.score > @ THEN c.score ELSE @]

\* update_top without the resize
update_top_no_trim(top, c, terms_, max_top_) ==
    stable_sort_cands(merge_cand(top, c), terms_)

update_top(top, c, terms_, max_top_) ==
    LET sorted == stable_sort_cands(merge_cand(top, c), terms_)
    IN  IF Len(sorted) > max_top_ THEN SubSeq(sorted, 1, max_top_) ELSE sorted

EmptyNode == [next |-> <<>>, top |-> <<>>]
\* the index after clear()
EmptyIndex == [terms_ |-> <<>>, scores_ |-> <<>>, nodes_ |-> <<>>, max_top_ |-> 10]

\* the loop of insert_term from character i of the term, standing at node
RECURSIVE insert_chars(_, _, _, _)
insert_chars(a, term_index, node, i) ==
    LET term == a.terms_[term_index + 1]
    IN  IF i > Len(term) THEN a
        ELSE LET c == term[i]
                 next == a.nodes_[node + 1].next
                 found == c \in DOMAIN next
                 child == IF found THEN next[c] ELSE Len(a.nodes_)
                 grown == IF found THEN a.nodes_
                          ELSE Append([a.nodes_ EXCEPT ![node + 1].next =
                                         [x \in DOMAIN next \cup {c} |->
                                            IF x = c THEN child ELSE next[x]]],
                                      EmptyNode)
                 cand == [term_index |-> term_index, score |-> a.scores_[term_index + 1]]
                 nodes == [grown EXCEPT ![child + 1].top =
                             update_top(@, cand, a.terms_, a.max_top_)]
             IN  insert_chars([a EXCEPT !.nodes_ = nodes], term_index, child, i + 1)

insert_term(a, term_index) ==
    LET cand == [term_index |-> term_index, score |-> a.scores_[term_index + 1]]
        rooted == [a EXCEPT !.nodes_[1].top = update_top(@, cand, a.terms_, a.max_top_)]
    IN  insert_chars(rooted, term_index, 0, 1)

\* the last loop of build: insert_term for the indexes 0 .. n - 1
RECURSIVE insert_terms(_, _)
insert_terms(a, n) == IF n = 0 THEN a ELSE insert_term(insert_terms(a, n - 1), n - 1)

\* AutocompleteIndex::build; order is the iteration order of the map
build(term_score, order, max_candidates_per_prefix) ==
    LET kept == SelectSeq(order, LAMBDA key : Len(normalize_token(key)) >= 2)
        terms1 == [i \in DOMAIN kept |-> normalize_token(kept[i])]
        scores1 == [i \in DOMAIN kept |-> term_score[kept[i]]]
        sorted == stable_sort_cands([i \in DOMAIN kept |->
                                       [term_index |-> i - 1, score |-> scores1[i]]], terms1)
        start == [terms_ |-> [i \in DOMAIN sorted |-> terms1[sorted[i].term_index + 1]],
                  scores_ |-> [i \in DOMAIN sorted |-> sorted[i].score],
                  nodes_ |-> <<EmptyNode>>,
                  max_top_ |-> IF max_candidates_per_prefix < 1 THEN 1
                               ELSE max_candidates_per_prefix]
    IN  insert_terms(start, Len(sorted))

\* lookup_node from character i of prefix_norm, standing at node_id
RECURSIVE lookup_node(_, _, _, _)
lookup_node(a, prefix_norm, node_id, i) ==
    IF i > Len(prefix_norm) THEN [found |-> TRUE, node_id |-> node_id]
    ELSE LET next == a.nodes_[node_id + 1].next
         IN  IF prefix_norm[i] \notin DOMAIN next THEN [found |-> FALSE, node_id |-> node_id]
             ELSE lookup_node(a, prefix_norm, next[prefix_norm[i]], i + 1)

\* suggest_query that returns the terms without the text before the run
suggest_query_no_base(a, user_input, limit) ==
    IF a.terms_ = <<>> \/ limit = 0 THEN <<>>
    ELSE LET ends == {e \in 0..Len(user_input) : e = 0 \/ isalnum(user_input[e])}
             end == CHOOSE e \in ends : \A f \in ends : f <= e
             starts == {b \in 0..end : b = 0 \/ ~isalnum(user_input[b])}
             start == CHOOSE b \in starts : \A f \in starts : f <= b
             prefix == normalize_token(SubSeq(user_input, start + 1, end))
             at == lookup_node(a, prefix, 0, 1)
         IN  IF prefix = <<>> \/ ~at.found THEN <<>>
             ELSE LET top == a.nodes_[at.node_id + 1].top
                      m == IF limit < Len(top) THEN limit ELSE Len(top)
                  IN  [i \in 1..m |-> a.terms_[top[i].term_index + 1]]

suggest_query(a, user_input, limit) ==
    IF a.terms_ = <<>> \/ limit = 0 THEN <<>>
    ELSE LET ends == {e \in 0..Len(user_input) : e = 0 \/ isalnum(user_input[e])}
             end == CHOOSE e \in ends : \A f \in ends : f <= e
             starts == {b \in 0..end : b = 0 \/ ~isalnum(user_input[b])}
             start == CHOOSE b \in starts : \A f \in starts : f <= b
             base == SubSeq(user_input, 1, start)
             prefix == normalize_token(SubSeq(user_input, start + 1, end))
             at == lookup_node(a, prefix, 0, 1)
         IN  IF prefix = <<>> \/ ~at.found THEN <<>>
             ELSE LET top == a.nodes_[at.node_id + 1].top
                      m == IF limit < Len(top) THEN limit ELSE Len(top)
                  IN  [i \in 1..m |-> base \o a.terms_[top[i].term_index + 1]]

NoCall == [state |-> "none"]

TrieInit ==
    /\ caches = [c \in CacheIds |-> EmptyCache]
    /\ cache_files = [c \in CacheIds |-> NoFile]
    /\ active = "search"
    /\ aiPending = [t \in AiThreads |-> NoKey]
    /\ lastOp = NoOp
    /\ touched = <<>>
    /\ IndexIdle
    /\ ConcIdle
    /\ UnitIdle
    /\ AuxIdle
    /\ ac = EmptyIndex
    /\ acCall = NoCall
    /\ csv = <<>>
    /\ uid_to_meta = <<>>
    /\ fetched = <<>>

\* Engine::reload builds the index from the terms of the segments
Build(term_score, order, max_candidates_per_prefix) ==
    /\ acCall = NoCall
    /\ ac' = build(term_score, order, max_candidates_per_prefix)
    /\ acCall' = [state |-> "built", term_score |-> term_score]
    /\ UNCHANGED <<csv, uid_to_meta, fetched, cacheVars, indexVars, concVars, unitVars, auxVars>>

\* Engine::suggest asks for suggestions
Suggest(user_input, limit) ==
    /\ acCall.state = "built"
    /\ acCall' = [acCall EXCEPT !.state = "suggested"]
                   @@ [user_input |-> user_input, limit |-> limit,
                       out |-> suggest_query(ac, user_input, limit)]
    /\ UNCHANGED <<ac, csv, uid_to_meta, fetched, cacheVars, indexVars, concVars, unitVars, auxVars>>

TrieNext ==
    \/ /\ acCall = NoCall
       /\ \E term_score \in TermToScores, max_candidates_per_prefix \in CandidateCaps :
             \E order \in Perms(DOMAIN term_score) :
                Build(term_score, order, max_candidates_per_prefix)
    \/ /\ acCall # NoCall
       /\ \E user_input \in UserInputs, limit \in SuggestLimits : Suggest(user_input, limit)

SpecTrie == TrieInit /\ [][TrieNext]_vars

(***************************************************************************)
(* The suggest specification: Engine::reload builds the index with 10      *)
(* candidates per prefix and Engine::suggest answers GET /api/suggest.     *)
(***************************************************************************)
SuggestInputs ==
    UserInputs \cup {<<"-">>, <<"a", "b", "-">>, <<" ", "A", "b">>}
\* the k of the request
SuggestKs == {0, 2, 11}

\* Engine::suggest past the lock: the answer for user_input and limit
suggest(a, user_input, limit) ==
    LET L == IF limit > 10 THEN 10 ELSE IF limit < 1 THEN 1 ELSE limit
    IN  [query |-> user_input, limit |-> L,
         suggestions |-> IF a.terms_ = <<>> THEN <<>> ELSE suggest_query(a, user_input, L)]

\* Engine::reload: ac.build(term_to_score, 10)
ReloadBuild(term_score, order) ==
    /\ acCall = NoCall
    /\ ac' = build(term_score, order, 10)
    /\ acCall' = [state |-> "built", term_score |-> term_score]
    /\ UNCHANGED <<csv, uid_to_meta, fetched, cacheVars, indexVars, concVars, unitVars, auxVars>>

\* GET /api/suggest
EngineSuggest(user_input, limit) ==
    /\ acCall.state = "built"
    /\ acCall' = [state |-> "answered", term_score |-> acCall.term_score,
                  user_input |-> user_input, k |-> limit,
                  answer |-> suggest(ac, user_input, limit)]
    /\ UNCHANGED <<ac, csv, uid_to_meta, fetched, cacheVars, indexVars, concVars, unitVars, auxVars>>

SuggestNext ==
    \/ /\ acCall = NoCall
       /\ \E term_score \in TermToScores : \E order \in Perms(DOMAIN term_score) :
             ReloadBuild(term_score, order)
    \/ /\ acCall # NoCall
       /\ \E user_input \in SuggestInputs, limit \in SuggestKs :
             EngineSuggest(user_input, limit)

SpecSuggest == TrieInit /\ [][SuggestNext]_vars

\* the rest of the service at rest, for the specifications of single classes
EngineIdle ==
    /\ caches = [c \in CacheIds |-> EmptyCache]
    /\ cache_files = [c \in CacheIds |-> NoFile]
    /\ active = "search"
    /\ aiPending = [t \in AiThreads |-> NoKey]
    /\ lastOp = NoOp
    /\ touched = <<>>
    /\ IndexIdle
    /\ ConcIdle
    /\ UnitIdle
    /\ ToolIdle

(***************************************************************************)
(* The metadata specification: load_metadata_uid_meta over the bytes of a  *)
(* metadata.csv, then fetch_metadata for a cord_uid of the map.  The file  *)
(* is the sequence of its bytes; offsets count from 0.                     *)
(***************************************************************************)
LF == "\n"
CordUidName == <<"c", "o", "r", "d", "_", "u", "i", "d">>
TitleName == <<"t", "i", "t", "l", "e">>
CsvHeaders == {TitleName \o <<",">> \o CordUidName, CordUidName \o <<",">> \o TitleName}
\* data rows: two rows with cord_uid u, a quoted comma, an empty cord_uid, a
\* row with one column, an empty line, a row ending in a carriage return
CsvLines ==
    {<<"x", ",", "u">>, <<"y", ",", "u">>, <<"\"", "x", ",", "y", "\"", ",", "v">>,
     <<"x", ",">>, <<"x">>, <<>>, <<"x", ",", "u", "\r">>}

RECURSIVE join_lines(_)
join_lines(lines) ==
    IF lines = <<>> THEN <<>>
    ELSE IF Len(lines) = 1 THEN lines[1]
    ELSE lines[1] \o <<LF>> \o join_lines(Tail(lines))

\* the files: a header line and up to MaxCsvRows rows, the last line with or
\* without its newline; the empty file; a file without a cord_uid column
CsvFiles ==
    {<<>>, join_lines(<<TitleName, <<"x">>>>)} \cup
    UNION {{join_lines(<<h>> \o rows), join_lines(<<h>> \o rows) \o <<LF>>} :
             h \in CsvHeaders, rows \in UNION {[1..n -> CsvLines] : n \in 0..MaxCsvRows}}

\* std::getline on the stream at byte pos: the line up to the next newline
\* or the end of the file; it fails when no byte is left
getline(bytes, pos) ==
    IF pos >= Len(bytes) THEN [ok |-> FALSE, line |-> <<>>, next |-> pos, eof |-> TRUE]
    ELSE LET newlines == {i \in (pos + 1)..Len(bytes) : bytes[i] = LF}
         IN  IF newlines = {}
             THEN [ok |-> TRUE, line |-> SubSeq(bytes, pos + 1, Len(bytes)),
                   next |-> Len(bytes), eof |-> TRUE]
             ELSE LET i == CHOOSE i \in newlines : \A j \in newlines : i <= j
                  IN  [ok |-> TRUE, line |-> SubSeq(bytes, pos + 1, i - 1),
                       next |-> i, eof |-> FALSE]

\* the loop of csv_row from character i, with the columns so far in out and
\* the current column in cur
RECURSIVE csv_row_from(_, _, _, _, _)
csv_row_from(line, i, inq, cur, out) ==
    IF i > Len(line) THEN Append(out, cur)
    ELSE IF line[i] = "\"" THEN csv_row_from(line, i + 1, ~inq, cur, out)
    ELSE IF ~inq /\ line[i] = "," THEN csv_row_from(line, i + 1, inq, <<>>, Append(out, cur))
    ELSE csv_row_from(line, i + 1, inq, Append(cur, line[i]), out)

csv_row(line) == csv_row_from(line, 1, FALSE, <<>>, <<>>)

\* the index of the last column with this name, -1 without one
column_index(cols, name) ==
    LET at == {i \in DOMAIN cols : cols[i] = name}
    IN  IF at = {} THEN -1 ELSE (CHOOSE i \in at : \A j \in at : j <= i) - 1

\* the row loop in which a skipped row does not advance current_pos
RECURSIVE load_rows_skip_in_place(_, _, _, _, _)
load_rows_skip_in_place(bytes, pos, current_pos, uid_i, map) ==
    LET got == getline(bytes, pos)
        line_length == Len(got.line) + 1
        r == csv_row(got.line)
    IN  IF ~got.ok THEN map
        ELSE IF Len(r) <= uid_i \/ r[uid_i + 1] = <<>>
        THEN load_rows_skip_in_place(bytes, got.next, current_pos, uid_i, map)
        ELSE LET uid == r[uid_i + 1]
                 added == IF uid \in DOMAIN map THEN map
                          ELSE [u \in DOMAIN map \cup {uid} |->
                                  IF u = uid
                                  THEN [file_offset |-> current_pos, row_length |-> line_length]
                                  ELSE map[u]]
             IN  load_rows_skip_in_place(bytes, got.next, current_pos + line_length, uid_i, added)

\* the row loop of load_metadata_uid_meta: the stream is at byte pos, and
\* current_pos is the position the function keeps for itself
RECURSIVE load_rows(_, _, _, _, _)
load_rows(bytes, pos, current_pos, uid_i, map) ==
    LET got == getline(bytes, pos)
        line_length == Len(got.line) + 1
        r == csv_row(got.line)
    IN  IF ~got.ok THEN map
        ELSE IF Len(r) <= uid_i \/ r[uid_i + 1] = <<>>
        THEN load_rows(bytes, got.next, current_pos + line_length, uid_i, map)
        ELSE LET uid == r[uid_i + 1]
                 added == IF uid \in DOMAIN map THEN map
                          ELSE [u \in DOMAIN map \cup {uid} |->
                                  IF u = uid
                                  THEN [file_offset |-> current_pos, row_length |-> line_length]
                                  ELSE map[u]]
             IN  load_rows(bytes, got.next, current_pos + line_length, uid_i, added)

\* load_metadata_uid_meta into the cleared map; tellg after a header line
\* that ended at the end of the file is -1
load_metadata_uid_meta(bytes) ==
    LET header == getline(bytes, 0)
        current_pos == IF header.eof THEN -1 ELSE header.next
        uid_i == column_index(csv_row(header.line), CordUidName)
    IN  IF ~header.ok \/ uid_i < 0 THEN <<>>
        ELSE load_rows(bytes, header.next, current_pos, uid_i, <<>>)

\* fetch_metadata: seek to file_offset, read one line, split it, and pick
\* the columns the header names (of those, the files here have title)
fetch_metadata(bytes, meta_info) ==
    LET got == getline(bytes, meta_info.file_offset)
        r == csv_row(got.line)
        title_i == column_index(csv_row(getline(bytes, 0).line), TitleName)
    IN  IF ~got.ok THEN [ok |-> FALSE, r |-> <<>>, title |-> <<>>]
        ELSE [ok |-> TRUE, r |-> r,
              title |-> IF title_i >= 0 /\ Len(r) > title_i THEN r[title_i + 1] ELSE <<>>]

MetaInit ==
    /\ caches = [c \in CacheIds |-> EmptyCache]
    /\ cache_files = [c \in CacheIds |-> NoFile]
    /\ active = "search"
    /\ aiPending = [t \in AiThreads |-> NoKey]
    /\ lastOp = NoOp
    /\ touched = <<>>
    /\ IndexIdle
    /\ ConcIdle
    /\ UnitIdle
    /\ AuxIdle
    /\ ac = <<>>
    /\ acCall = <<>>
    /\ csv \in CsvFiles
    /\ uid_to_meta = <<>>
    /\ fetched = [state |-> "unloaded"]

\* Engine::reload clears the map and loads it from metadata.csv
LoadMetadata ==
    /\ fetched.state = "unloaded"
    /\ uid_to_meta' = load_metadata_uid_meta(csv)
    /\ fetched' = [state |-> "loaded"]
    /\ UNCHANGED <<ac, acCall, csv, cacheVars, indexVars, concVars, unitVars, auxVars>>

\* Engine::search fetches the metadata of a hit whose cord_uid is in the map
FetchMetadata(uid) ==
    /\ fetched.state = "loaded"
    /\ uid \in DOMAIN uid_to_meta
    /\ LET result == fetch_metadata(csv, uid_to_meta[uid])
       IN  fetched' = [state |-> "fetched", uid |-> uid, ok |-> result.ok, r |-> result.r,
                       title |-> result.title]
    /\ UNCHANGED <<ac, acCall, csv, uid_to_meta, cacheVars, indexVars, concVars, unitVars, auxVars>>

MetaNext ==
    \/ LoadMetadata
    \/ \E uid \in DOMAIN uid_to_meta : FetchMetadata(uid)

SpecMeta == MetaInit /\ [][MetaNext]_vars

(***************************************************************************)
(* The format specification: load_segment over a segment directory that    *)
(* holds the barrelized files of one document and a legacy lexicon.bin and *)
(* inverted.bin pair of another, with any of the files missing.            *)
(***************************************************************************)
FormatWriter ==
    add_document(EmptyWriter, DocMeta(0, <<<<"alpha", 1>>, <<"beta", 1>>, <<"gamma", 1>>>>),
                 <<<<"alpha", 1>>, <<"beta", 1>>, <<"gamma", 1>>>>)
\* lexicon.bin with the one term delta, and its posting in inverted.bin
LegacyLexicon == FileOf(<<1, "delta", 0, 1, 0, 1>>)
LegacyInverted == FileOf(<<0, 1>>)

FormatFileNames ==
    {"stats", "docs", "barrels", "inverted_b000", "lexicon_b000", "inverted_rest",
     "lexicon_rest", "lexicon_bin", "inverted_bin"}

\* the directory without the files named in missing
directory(missing) ==
    LET full == [write_segment(FormatWriter) EXCEPT !.lexicon_bin = LegacyLexicon,
                                                    !.inverted_bin = LegacyInverted]
        keep(name, file) == IF name \in missing THEN NoSuchFile ELSE file
    IN  [full EXCEPT
           !.stats = keep("stats", @), !.docs = keep("docs", @),
           !.barrels = keep("barrels", @),
           !.inverted = [b \in DOMAIN @ |->
                           keep(IF b = 1 THEN "inverted_b000" ELSE "inverted_rest", @[b])],
           !.lexicon = [b \in DOMAIN @ |->
                          keep(IF b = 1 THEN "lexicon_b000" ELSE "lexicon_rest", @[b])],
           !.lexicon_bin = keep("lexicon_bin", @),
           !.inverted_bin = keep("inverted_bin", @)]

FormatInit ==
    /\ caches = [c \in CacheIds |-> EmptyCache]
    /\ cache_files = [c \in CacheIds |-> NoFile]
    /\ active = "search"
    /\ aiPending = [t \in AiThreads |-> NoKey]
    /\ lastOp = NoOp
    /\ touched = <<>>
    /\ IndexIdle
    /\ ConcIdle
    /\ ToolIdle
    /\ AuxIdle
    /\ writer = FormatWriter
    /\ segfiles = NoSegFiles
    /\ seg = NotLoaded
    /\ srch = <<>>

\* the environment: the directory is found with some of its files missing
FindDirectory(missing) ==
    /\ segfiles = NoSegFiles
    /\ segfiles' = directory(missing)
    /\ UNCHANGED <<writer, seg, srch, cacheVars, indexVars, concVars, toolVars, auxVars>>

FormatNext ==
    \/ \E missing \in SUBSET FormatFileNames : FindDirectory(missing)
    \/ LoadSegment

SpecFormat == FormatInit /\ [][FormatNext]_vars

(***************************************************************************)
(* The scoring specification: Engine::search past the cache lookup, over   *)
(* segments written by SegmentWriter and loaded by load_segment.  The      *)
(* search scores one segment after the other, offers every scored document *)
(* of the segment to the bounded heap in the iteration order of the score  *)
(* map, and at the end pops the heap and reverses the popped hits.         *)
(***************************************************************************)
MaxScoreSegs == 2

\* the document streams the segments are built from, each document given by
\* its term_freqs
ScoreBatches ==
    {<< <<<<"alpha", 2>>>>, <<<<"alpha", 1>>, <<"beta", 1>>>>, <<<<"beta", 2>>>> >>,
     << <<<<"alpha", 1>>>>, <<<<"gamma", 1>>>> >>}

\* the docIds of the batches
ScoreDocIds == UNION {0..(Len(batch) - 1) : batch \in ScoreBatches}

\* the weighted terms of a query with semantic expansion off: weight 1 each
ScoreQueries == {<<"alpha">>, <<"alpha", "beta">>, <<"gamma", "delta">>}
ScoreKs == {0, 1, 2, 200}

\* the writer after the first n documents of a batch
RECURSIVE build_segment(_, _)
build_segment(batch, n) ==
    IF n = 0 THEN EmptyWriter
    ELSE add_document(build_segment(batch, n - 1), DocMeta(n - 1, batch[n]), batch[n])

\* the BM25 value of one posting.  Float arithmetic is not modelled: the
\* value is kept as the tf of the posting, which the BM25 value grows with
posting_score(s, e, posting) == posting.tf

\* score[docId] += v, a missing entry counting as 0
score_add(score, docId, v) ==
    [d \in (DOMAIN score) \cup {docId} |->
       IF d = docId THEN (IF d \in DOMAIN score THEN score[d] ELSE 0) + v ELSE score[d]]

\* the loop over the first n postings read for a term
RECURSIVE score_postings(_, _, _, _, _)
score_postings(score, s, e, plist, n) ==
    IF n = 0 THEN score
    ELSE score_add(score_postings(score, s, e, plist, n - 1),
                   plist[n].docId, posting_score(s, e, plist[n]))

\* the loop of Engine::search over the first n weighted query terms: the
\* score map of segment s
RECURSIVE score_terms(_, _, _, _)
score_terms(s, qterms_w, n, junk) ==
    IF n = 0 THEN <<>>
    ELSE LET score == score_terms(s, qterms_w, n - 1, junk)
             term == qterms_w[n]
         IN  IF term \notin DOMAIN s.lex THEN score
             ELSE IF s.lex[term].df = 0 THEN score
             ELSE LET plist == read_postings(s.inv_barrels, s.lex[term], junk)
                  IN  score_postings(score, s, s.lex[term], plist, Len(plist))

\* the docIds with which the loop indexes s.docs: those of all postings read
docs_indexed(s, qterms_w, junk) ==
    UNION {{read_postings(s.inv_barrels, s.lex[qterms_w[n]], junk)[i].docId :
              i \in 1..s.lex[qterms_w[n]].count} :
           n \in {m \in DOMAIN qterms_w :
                    qterms_w[m] \in DOMAIN s.lex /\ s.lex[qterms_w[m]].df # 0}}

\* the hits pq.top() may return: those of the least score
MinHits(pq) == {h \in pq : \A g \in pq : h.s <= g.s}

\* the heap step that keeps the first K hits offered and drops the rest
heap_offer_first_come(pq, h, K, top) ==
    IF Cardinality(pq) < K THEN pq \cup {h} ELSE pq

\* the heap step of Engine::search for hit h: push while the heap holds
\* fewer than K hits, else replace the top when h scores higher
heap_offer(pq, h, K, top) ==
    IF Cardinality(pq) < K THEN pq \cup {h}
    ELSE IF h.s > top.s THEN (pq \ {top}) \cup {h}
    ELSE pq

\* the count of the last segment alone
add_found_overwrite(total, score) == Cardinality(DOMAIN score)

\* total_found += score.size()
add_found(total, score) == total + Cardinality(DOMAIN score)

\* std::reverse
RECURSIVE reverse(_)
reverse(hits) == IF hits = <<>> THEN <<>> ELSE Append(reverse(Tail(hits)), Head(hits))

SearchIdle == [pc |-> "idle"]

ScoreInit ==
    /\ ToolIdle
    /\ AuxIdle
    /\ caches = [c \in CacheIds |-> EmptyCache]
    /\ cache_files = [c \in CacheIds |-> NoFile]
    /\ active = "search"
    /\ aiPending = [t \in AiThreads |-> NoKey]
    /\ lastOp = NoOp
    /\ touched = <<>>
    /\ manifest = NoManifest
    /\ dirs = [n \in DirNames |-> NoDir]
    /\ phase = "serving"
    /\ last = NoRequest
    /\ listChanged = FALSE
    /\ faults = 0
    /\ ConcIdle
    /\ \E n \in 1..MaxScoreSegs :
       \E batches \in [1..n -> ScoreBatches] :
          /\ writer = [i \in 1..n |-> build_segment(batches[i], Len(batches[i]))]
          /\ engine = [EmptyEngine EXCEPT
                         !.seg_names = [i \in 1..n |-> seg_name(i)],
                         !.segments = [i \in 1..n |->
                            load_segment_files(write_segment(writer[i]),
                                               CHOOSE junk \in JunkValues : TRUE).seg]]
    /\ segfiles = <<>>
    /\ seg = <<>>
    /\ srch = SearchIdle

\* Engine::search from the clamp of k to the start of the scoring loop
SearchBegin(qterms_w, k) ==
    /\ srch.pc = "idle"
    /\ srch' = [pc |-> "segment", K |-> clamp_k(k), qterms_w |-> qterms_w, segId |-> 0,
                score |-> <<>>, todo |-> {}, pq |-> {}, total_found |-> 0,
                hits |-> <<>>, matches |-> {}, indexed |-> {}]
    /\ UNCHANGED <<writer, segfiles, seg, cacheVars, indexVars, concVars, toolVars, auxVars>>

\* the scores of segment segId are accumulated
ScoreSegment ==
    /\ srch.pc = "segment"
    /\ \E junk \in JunkValues :
          LET score == score_terms(engine.segments[srch.segId + 1], srch.qterms_w,
                                   Len(srch.qterms_w), junk)
          IN  srch' = [srch EXCEPT
                         !.pc = "push", !.score = score, !.todo = DOMAIN score,
                         !.indexed = docs_indexed(engine.segments[srch.segId + 1],
                                                  srch.qterms_w, junk),
                         !.matches = @ \cup {[s |-> score[d], segId |-> srch.segId, docId |-> d] :
                                               d \in DOMAIN score}]
    /\ UNCHANGED <<writer, segfiles, seg, cacheVars, indexVars, concVars, toolVars, auxVars>>

\* the next entry of the score map is offered to the heap
PushHit(docId) ==
    /\ srch.pc = "push"
    /\ docId \in srch.todo
    /\ LET h == [s |-> srch.score[docId], segId |-> srch.segId, docId |-> docId]
       IN  \E top \in IF srch.pq = {} THEN {h} ELSE MinHits(srch.pq) :
              srch' = [srch EXCEPT !.pq = heap_offer(@, h, srch.K, top),
                                   !.todo = @ \ {docId}]
    /\ UNCHANGED <<writer, segfiles, seg, cacheVars, indexVars, concVars, toolVars, auxVars>>

\* total_found += score.size(), and on to the next segment or to the
\* extraction of the hits
NextSegment ==
    /\ srch.pc = "push"
    /\ srch.todo = {}
    /\ srch' = [srch EXCEPT
                  !.total_found = add_found(@, srch.score),
                  !.segId = @ + 1,
                  !.pc = IF srch.segId + 1 < Len(engine.segments) THEN "segment" ELSE "pop"]
    /\ UNCHANGED <<writer, segfiles, seg, cacheVars, indexVars, concVars, toolVars, auxVars>>

\* hits.push_back(pq.top()); pq.pop()
PopHit ==
    /\ srch.pc = "pop"
    /\ srch.pq # {}
    /\ \E top \in MinHits(srch.pq) :
          srch' = [srch EXCEPT !.hits = Append(@, top), !.pq = @ \ {top}]
    /\ UNCHANGED <<writer, segfiles, seg, cacheVars, indexVars, concVars, toolVars, auxVars>>

\* std::reverse(hits), out["found"] = total_found
ReverseHits ==
    /\ srch.pc = "pop"
    /\ srch.pq = {}
    /\ srch' = [srch EXCEPT !.hits = reverse(@), !.pc = "done"]
    /\ UNCHANGED <<writer, segfiles, seg, cacheVars, indexVars, concVars, toolVars, auxVars>>

\* the response is returned
SearchReturn ==
    /\ srch.pc = "done"
    /\ srch' = SearchIdle
    /\ UNCHANGED <<writer, segfiles, seg, cacheVars, indexVars, concVars, toolVars, auxVars>>

ScoreNext ==
    \/ \E qterms_w \in ScoreQueries, k \in ScoreKs : SearchBegin(qterms_w, k)
    \/ ScoreSegment
    \/ \E docId \in ScoreDocIds : PushHit(docId)
    \/ NextSegment
    \/ PopHit
    \/ ReverseHits
    \/ SearchReturn

SpecScore == ScoreInit /\ [][ScoreNext]_vars

(***************************************************************************)
(* The same search over an index whose first segment has inverted files    *)
(* that end early: the last one or two values of each file are missing     *)
(* (half a posting or a whole one), while the lexicon still counts them.   *)
(***************************************************************************)
\* the file without its last n values
RECURSIVE cut_values(_, _)
cut_values(file, n) ==
    IF n = 0 \/ file.data = <<>> THEN file ELSE cut_values(cut_short(file), n - 1)

short_inverted(files, n) ==
    [files EXCEPT !.inverted = [b \in DOMAIN files.inverted |-> cut_values(files.inverted[b], n)]]

ScoreShortInit ==
    /\ ToolIdle
    /\ AuxIdle
    /\ caches = [c \in CacheIds |-> EmptyCache]
    /\ cache_files = [c \in CacheIds |-> NoFile]
    /\ active = "search"
    /\ aiPending = [t \in AiThreads |-> NoKey]
    /\ lastOp = NoOp
    /\ touched = <<>>
    /\ manifest = NoManifest
    /\ dirs = [n \in DirNames |-> NoDir]
    /\ phase = "serving"
    /\ last = NoRequest
    /\ listChanged = FALSE
    /\ faults = 0
    /\ ConcIdle
    /\ \E n \in 1..MaxScoreSegs :
       \E batches \in [1..n -> ScoreBatches], cut \in 1..2 :
          /\ writer = [i \in 1..n |-> build_segment(batches[i], Len(batches[i]))]
          /\ engine = [EmptyEngine EXCEPT
                         !.seg_names = [i \in 1..n |-> seg_name(i)],
                         !.segments = [i \in 1..n |->
                            load_segment_files(
                               short_inverted(write_segment(writer[i]),
                                              IF i = 1 THEN cut ELSE 0),
                               CHOOSE junk \in JunkValues : TRUE).seg]]
    /\ segfiles = <<>>
    /\ seg = <<>>
    /\ srch = SearchIdle

SpecScoreShort == ScoreShortInit /\ [][ScoreNext]_vars

(***************************************************************************)
(* The engine-level specification: one process serving requests one at a   *)
(* time over an index directory.  The directory starts as the offline      *)
(* builders leave it (segment directories seg_000001.., no manifest.bin:   *)
(* no builder writes one) or with a manifest that lists those directories. *)
(***************************************************************************)
Queries == {<<"alpha">>, <<"the", "x">>}
Ks == {100, 200}

\* what can happen to an add-document request
Outcomes == {"ok", "bad_input", "mkdir_fails"} \cup Files

LoadedDirs(e) == [i \in DOMAIN e.segments |-> e.segments[i].dir]

IsPrefix(s, t) == Len(s) <= Len(t) /\ \A i \in DOMAIN s : s[i] = t[i]

NoDuplicates(s) == \A i, j \in DOMAIN s : s[i] = s[j] => i = j

Init ==
    /\ ToolIdle
    /\ AuxIdle
    /\ caches = [c \in CacheIds |-> EmptyCache]
    /\ cache_files = [c \in CacheIds |-> NoFile]
    /\ active = "search"
    /\ aiPending = [t \in AiThreads |-> NoKey]
    /\ lastOp = NoOp
    /\ touched = <<>>
    /\ \E n \in 1..InitSegs :
          /\ dirs = [name \in DirNames |->
                       IF \E id \in 1..n : seg_name(id) = name
                       THEN BuiltDir(CHOOSE id \in 1..n : seg_name(id) = name)
                       ELSE NoDir]
          /\ manifest \in {NoManifest, save_manifest([i \in 1..n |-> seg_name(i)])}
    /\ engine = EmptyEngine
    /\ phase = "down"
    /\ last = NoRequest
    /\ listChanged = FALSE
    /\ faults = 0
    /\ ConcIdle
    /\ UnitIdle

ReloadResult(r) == IF r.ok THEN "ok" ELSE "failed"

\* main(): the engine loads the index; the process exits when that fails
Startup ==
    /\ phase = "down"
    /\ LET r == reload(EmptyEngine, manifest, dirs)
       IN  /\ engine' = IF r.ok THEN r.engine ELSE engine
           /\ phase' = IF r.ok THEN "serving" ELSE "down"
           /\ caches' = IF r.ok THEN reload_caches(caches, cache_files) ELSE caches
           /\ last' = [NoRequest EXCEPT !.op = "startup", !.reload = ReloadResult(r)]
    /\ UNCHANGED <<cache_files, active, aiPending, lastOp, touched, manifest, dirs,
                   listChanged, faults, concVars, toolVars, auxVars, unitVars>>

\* POST /api/reload
Reload ==
    /\ phase = "serving"
    /\ LET r == reload(engine, manifest, dirs)
       IN  /\ engine' = r.engine
           /\ caches' = IF r.ok THEN reload_caches(caches, cache_files) ELSE caches
           /\ listChanged' = (listChanged \/ (r.ok /\ LoadedDirs(r.engine) # LoadedDirs(engine)))
           /\ last' = [NoRequest EXCEPT !.op = "reload", !.reload = ReloadResult(r)]
    /\ UNCHANGED <<cache_files, active, aiPending, lastOp, touched, manifest, dirs, phase,
                   faults, concVars, toolVars, auxVars, unitVars>>

JunkFor(e) ==
    IF Len(e.seg_names) < Len(e.segments) THEN Junk ELSE {CHOOSE j \in Junk : TRUE}

\* GET /api/search: Engine::search
Search(query, k) ==
    /\ phase = "serving"
    /\ LET K == clamp_k(k)
           key == make_cache_key(query, K)
           m == caches["search"]
       IN  IF cache_hit(m, key)
           THEN /\ caches' = [caches EXCEPT !["search"] = get_from_cache(m, key)]
                /\ cache_files' = cache_files
                /\ last' = [NoRequest EXCEPT !.op = "search", !.from_cache = TRUE,
                                             !.out = get_result(m, key).result]
           ELSE \E junk \in JunkFor(engine) :
                LET out == search_index(engine, query, K, junk)
                IN  /\ last' = [NoRequest EXCEPT !.op = "search", !.out = out]
                    /\ IF "found" \notin DOMAIN out
                       THEN UNCHANGED <<caches, cache_files>>
                       ELSE \E order \in Perms(DOMAIN put_mem(m, MAX_SIZE("search"), key, out).cache) :
                            LET st == put_in_cache([mem |-> m, file |-> cache_files["search"]],
                                                   MAX_SIZE("search"), key, out, order, TRUE, FALSE)
                            IN  /\ caches' = [caches EXCEPT !["search"] = st.mem]
                                /\ cache_files' = [cache_files EXCEPT !["search"] = st.file]
    /\ UNCHANGED <<active, aiPending, lastOp, touched, manifest, dirs, engine, phase,
                   listChanged, faults, concVars, toolVars, auxVars, unitVars>>

\* POST /api/add_document: handle_add_document with the reload that follows
\* its critical section
AddDocument(doc, outcome) ==
    /\ phase = "serving"
    /\ Len(load_manifest(manifest)) < MaxSegs
    /\ outcome \in Files \cup {"mkdir_fails"} => faults < MaxFaults
    /\ faults' = IF outcome \in Files \cup {"mkdir_fails"} THEN faults + 1 ELSE faults
    /\ LET segs == load_manifest(manifest)
           new_seg == seg_name(Len(segs) + 1)
           made == [dirs EXCEPT ![new_seg].exists = TRUE]
           written == [made EXCEPT ![new_seg].files =
                         [f \in Files |-> IF f = outcome THEN @[f] ELSE <<doc>>]]
           man == save_manifest(Append(segs, new_seg))
           r == reload(engine, man, written)
           answer == [NoRequest EXCEPT !.op = "add", !.segment = new_seg,
                                       !.failed = IF outcome = "ok" THEN "none" ELSE outcome]
       IN  CASE outcome = "mkdir_fails" ->
                  /\ last' = [answer EXCEPT !.status = 500]
                  /\ UNCHANGED <<caches, manifest, dirs, engine, listChanged>>
             [] outcome = "bad_input" ->
                  /\ dirs' = made
                  /\ last' = [answer EXCEPT !.status = 400]
                  /\ UNCHANGED <<caches, manifest, engine, listChanged>>
             [] OTHER ->
                  /\ dirs' = written
                  /\ manifest' = man
                  /\ engine' = r.engine
                  /\ caches' = IF r.ok THEN reload_caches(caches, cache_files) ELSE caches
                  /\ listChanged' = (listChanged \/ (r.ok /\ LoadedDirs(r.engine) # LoadedDirs(engine)))
                  /\ last' = [answer EXCEPT !.status = 200, !.reload = ReloadResult(r)]
    /\ UNCHANGED <<cache_files, active, aiPending, lastOp, touched, phase, concVars, toolVars, auxVars, unitVars>>

\* the environment: a segment directory is lost (removed, or its disk fails)
RemoveSegmentDir(name) ==
    /\ dirs[name].exists
    /\ faults < MaxFaults
    /\ faults' = faults + 1
    /\ dirs' = [dirs EXCEPT ![name] = NoDir]
    /\ last' = [NoRequest EXCEPT !.op = "env"]
    /\ UNCHANGED <<cacheVars, manifest, engine, phase, listChanged, concVars, toolVars, auxVars, unitVars>>

Next ==
    \/ Startup
    \/ Reload
    \/ \E query \in Queries, k \in Ks : Search(query, k)
    \/ \E doc \in AppendDocs, outcome \in Outcomes : AddDocument(doc, outcome)
    \/ \E name \in DirNames : RemoveSegmentDir(name)

Spec == Init /\ [][Next]_vars

(***************************************************************************)
(* Properties of the caches.                                               *)
(***************************************************************************)
CacheSize(c) == Cardinality(DOMAIN caches[c].cache)

MemPairs(c) == {<<k, caches[c].cache[k].result>> : k \in DOMAIN caches[c].cache}

FilePairs(c) == {<<it.key, it.result>> : it \in Range(cache_files[c].items)}

\* the cached key whose most recent successful get or put is the oldest
OldestTouched(c) ==
    LET cached == SelectKeys(touched, DOMAIN caches[c].cache)
    IN  cached[Len(cached)]

\* C1: in every reachable state each cache holds at most its capacity of
\* entries, and right after a get that hits key k or a put of key k, k is at
\* the front (most recently used end) of the LRU list.
C1_LruBound ==
    \A c \in CacheIds :
        /\ CacheSize(c) <= MAX_SIZE(c)
        /\ (c = active /\ (lastOp.op = "put" \/ (lastOp.op = "get" /\ lastOp.hit)))
             => /\ caches[c].lru_list # <<>>
                /\ Head(caches[c].lru_list) = lastOp.key

\* a put into a full cache has just evicted an entry and saved the file
C1_Witness ==
    /\ lastOp.op = "put" /\ ~lastOp.hit /\ lastOp.full
    /\ CacheSize(active) = MAX_SIZE(active)
    /\ cache_files[active].kind = "array"

\* C2: a put of a key that is not cached, into a cache holding exactly
\* capacity-many entries, removes exactly the key whose most recent
\* successful get or put is the oldest; all other keys and the new key stay.
C2_EvictsOldestTouched ==
    [][(lastOp'.op = "put" /\ ~lastOp'.hit /\ lastOp'.full)
         => DOMAIN caches'[active].cache =
              ((DOMAIN caches[active].cache) \ {OldestTouched(active)}) \cup {lastOp'.key}]_vars

\* C10: after every put, of a new key or of a cached one, the JSON file
\* holds exactly the key/result pairs of the in-memory cache.
C10_FileEqualsCacheAfterPut ==
    lastOp.op = "put"
        => /\ cache_files[active].kind = "array"
           /\ FilePairs(active) = MemPairs(active)

\* C11: a save of a cache followed by a load (the destructor's save and the
\* load of the next start) leaves the keys in the same recency order: the
\* LRU list after the load equals the LRU list before the save.
C11_SaveLoadKeepsOrder ==
    [][(lastOp'.op = "restart" /\ DOMAIN caches[active].cache # {})
         => caches'[active].lru_list = caches[active].lru_list]_vars

\* C12: a save of a cache followed by a load restores the same keys with
\* the same results: every key hits after the load exactly if it hit before
\* the save, and a lookup returns the same result.
C12_SaveLoadKeepsEntries ==
    [][(lastOp'.op = "restart" /\ DOMAIN caches[active].cache # {})
         => \A key \in PersistKeys :
               get_result(caches'[active], key) = get_result(caches[active], key)]_vars

\* a file that does not parse, holds no array, or has an item whose "key" is
\* not a string
IsBadFile(file) ==
    \/ file.kind \in {"unparsable", "not_array"}
    \/ /\ file.kind = "array"
       /\ \E i \in DOMAIN file.items :
             "key" \in DOMAIN file.items[i] /\ file.items[i].key_type # "string"

\* C20: a load of a bad cache file, at a start of the server or in a later
\* reload, leaves the cache empty: no key in the map, no key in the LRU list
\* (stated for the caches whose keys are all UTF-8).
C20_BadFileLoadsEmpty ==
    [][(lastOp'.op \in {"load", "restart"} /\ IsBadFile(cache_files'[active])
          /\ BadUtf8Key \notin DOMAIN caches[active].cache)
         => /\ DOMAIN caches'[active].cache = {}
            /\ caches'[active].lru_list = <<>>]_vars

\* C24: in every reachable state of a cache the LRU list holds each cached
\* key exactly once and no other key, list and map have the same size, and
\* the list position stored in an entry is the position of the entry's key.
C24_ListMatchesMap ==
    LET m == caches[active]
    IN  /\ Len(m.lru_list) = Cardinality(DOMAIN m.cache)
        /\ {m.lru_list[i] : i \in DOMAIN m.lru_list} = DOMAIN m.cache
        /\ \A key \in DOMAIN m.cache :
              /\ m.cache[key].lru_iter \in DOMAIN m.lru_list
              /\ m.lru_list[m.cache[key].lru_iter] = key

\* the keys of a list other than key, in list order
OtherKeys(list, key) == SelectSeq(list, LAMBDA x : x # key)

\* C27: a put of a cached key stores the new result under the key and moves
\* the key to the front of the LRU list; the set of keys, the size, the
\* result of every other key and the order of the other keys stay, also when
\* the cache is full.
C27_UpdateInPlace ==
    [][(lastOp'.op = "put" /\ lastOp'.hit)
         => LET m == caches[active]
                n == caches'[active]
                key == lastOp'.key
            IN  /\ DOMAIN n.cache = DOMAIN m.cache
                /\ n.cache[key].result = lastOp'.result
                /\ Head(n.lru_list) = key
                /\ Len(n.lru_list) = Len(m.lru_list)
                /\ OtherKeys(n.lru_list, key) = OtherKeys(m.lru_list, key)
                /\ \A other \in DOMAIN m.cache \ {key} :
                      n.cache[other].result = m.cache[other].result]_vars

\* a put has just replaced the result of a key that was cached, in a full
\* cache that holds another key as well
C27_Witness ==
    /\ lastOp.op = "put" /\ lastOp.hit /\ lastOp.full
    /\ CacheSize(active) >= 2
    /\ lastOp.result = "r2"

\* C25: of the generate_ai_overview calls for one key that is not cached,
\* at most one is past a missed lookup, where the request to the LLM is made.
C25_OneLlmRequestPerKey ==
    active = "ai_overview"
       => \A t1, t2 \in AiThreads :
             (t1 # t2 /\ aiPending[t1] # NoKey) => aiPending[t1] # aiPending[t2]

(***************************************************************************)
(* Properties of the segment writer and loader.                            *)
(***************************************************************************)
\* the segment directory holds the files the writer wrote
Intact == segfiles = write_segment(writer)

LoadedIntact == seg.state = "loaded" /\ Intact

\* the terms of the writer with a posting
TermsWithDf == {t \in DOMAIN writer.term_to_id : writer.inverted[writer.term_to_id[t] + 1] # <<>>}

\* the postings of a term as the forward lists of documents 0 .. n - 1 give
\* them, in ascending docId order
RECURSIVE ForwardPostings(_, _)
ForwardPostings(term, n) ==
    IF n = 0 THEN <<>>
    ELSE LET mine == SelectSeq(writer.forward[n],
                               LAMBDA p : p[1] = writer.term_to_id[term])
         IN  ForwardPostings(term, n - 1)
               \o [i \in DOMAIN mine |-> [docId |-> n - 1, tf |-> mine[i][2]]]

\* the bytes of an inverted barrel file a lexicon entry points at
ByteRange(e) == {x \in 0..(8 * MaxDocs * Cardinality(WriterTerms)) :
                   e.offset <= x /\ x < e.offset + 8 * e.count}

\* C13: for every stream of documents given to the writer and every term
\* with df > 0, the count (docId, tf) pairs read at the offset of the loaded
\* lexicon entry, in the inverted file of the entry's barrel, are the pairs
\* the forward lists hold for the term, in ascending docId order; the byte
\* ranges of two terms of the same barrel do not overlap.
C13_PostingsRoundTrip ==
    LoadedIntact =>
        /\ seg.ok
        /\ \A term \in TermsWithDf :
              /\ term \in DOMAIN seg.s.lex
              /\ \A junk \in JunkValues :
                    read_postings(seg.s.inv_barrels, seg.s.lex[term], junk)
                      = ForwardPostings(term, Len(writer.forward))
        /\ \A t, u \in DOMAIN seg.s.lex :
              (t # u /\ seg.s.lex[t].barrelId = seg.s.lex[u].barrelId)
                 => ByteRange(seg.s.lex[t]) \cap ByteRange(seg.s.lex[u]) = {}

\* a term of two documents and a later term of the same barrel were loaded
C13_Witness ==
    /\ LoadedIntact
    /\ \E t, u \in DOMAIN seg.s.lex :
          /\ seg.s.lex[t].barrelId = seg.s.lex[u].barrelId
          /\ seg.s.lex[t].count = 2
          /\ seg.s.lex[u].offset > 0

\* the entries of a lexicon file as (term, termId) pairs, whatever its header says
LexFileTerms(data) ==
    {<<i, data[5 * (i - 1) + 2]>> : i \in 1..((Len(data) - 1) \div 5)}

RECURSIVE SumHeaders(_, _)
SumHeaders(files, n) ==
    IF n = 0 THEN 0 ELSE SumHeaders(files, n - 1) + files[n].data[1]

\* C14: in a written and loaded segment every lexicon entry of termId t has
\* barrelId = min(t / terms_per_barrel, barrel_count - 1) with
\* terms_per_barrel = max(1, ceil(T / barrel_count)); every term with df > 0
\* is in exactly one barrel; the term counts of the lexicon headers add up
\* to the number of terms with df > 0.
C14_BarrelPartition ==
    LoadedIntact =>
        LET T == Len(writer.id_to_term)
            count == seg.s.barrel_params.barrel_count
            ceil == CHOOSE n \in 0..T : n * count >= T /\ (n = 0 \/ (n - 1) * count < T)
            per == IF ceil < 1 THEN 1 ELSE ceil
            min(a, b) == IF a < b THEN a ELSE b
        IN  /\ \A term \in DOMAIN seg.s.lex :
                  seg.s.lex[term].barrelId
                    = min(seg.s.lex[term].termId \div per, count - 1)
            /\ \A term \in TermsWithDf :
                  Cardinality({<<b, x>> \in UNION {{b} \X LexFileTerms(segfiles.lexicon[b].data) :
                                                     b \in 1..count} :
                                 x[2] = term}) = 1
            /\ SumHeaders(segfiles.lexicon, count) = Cardinality(TermsWithDf)

\* three terms were written into two barrels
C14_Witness ==
    /\ LoadedIntact
    /\ Len(writer.id_to_term) = 3
    /\ \E t, u \in DOMAIN seg.s.lex : seg.s.lex[t].barrelId # seg.s.lex[u].barrelId

\* the forward lists of a forward file: n records from value pos on, each a
\* length followed by that many (termId, tf) pairs
RECURSIVE ForwardRecords(_, _, _)
ForwardRecords(data, pos, n) ==
    IF n = 0 THEN <<>>
    ELSE LET len == data[pos]
         IN  <<[i \in 1..len |-> <<data[pos + 2 * i - 1], data[pos + 2 * i]>>]>>
               \o ForwardRecords(data, pos + 1 + 2 * len, n - 1)

\* the entries of a lexicon file: (term, termId, df, offset, count)
LexFileEntries(data) ==
    {[term |-> data[5 * i - 3], termId |-> data[5 * i - 2], df |-> data[5 * i - 1],
      offset |-> data[5 * i], count |-> data[5 * i + 1]] : i \in 1..((Len(data) - 1) \div 5)}

\* C28: in a segment written by SegmentWriter from documents that list each
\* term at most once, the docIds of every posting list and the termIds of
\* every forward list are strictly increasing, and every lexicon entry has
\* df = count = the length of the term's posting list.
C28_WrittenListsSorted ==
    Intact =>
        /\ \A b \in DOMAIN segfiles.lexicon :
              \A e \in LexFileEntries(segfiles.lexicon[b].data) :
                 LET inv == segfiles.inverted[b].data
                     first == e.offset \div 4
                     docIdAt(i) == inv[first + 2 * i - 1]
                 IN  /\ e.df = e.count
                     /\ e.df = Len(writer.inverted[e.termId + 1])
                     /\ first + 2 * e.count <= Len(inv)
                     /\ \A i, j \in 1..e.count : i < j => docIdAt(i) < docIdAt(j)
        /\ LET fwd == ForwardRecords(segfiles.forward.data, 2, segfiles.forward.data[1])
           IN  /\ Len(fwd) = Len(writer.docs)
               /\ \A d \in DOMAIN fwd :
                     \A i, j \in DOMAIN fwd[d] : i < j => fwd[d][i][1] < fwd[d][j][1]

\* a written segment of two documents with two terms each, both terms of
\* the second document having a posting list of two documents
C28_Witness ==
    /\ Intact
    /\ Len(writer.forward) = 2
    /\ Len(writer.forward[2]) = 2
    /\ \A i \in 1..2 : Len(writer.inverted[writer.forward[2][i][1] + 1]) = 2


\* the terms of term_freqs the writer w has not seen, in the order of term_freqs
NewTerms(w, term_freqs) ==
    LET terms == [i \in DOMAIN term_freqs |-> term_freqs[i][1]]
        firsts == {i \in DOMAIN terms :
                     terms[i] \notin DOMAIN w.term_to_id /\ \A j \in 1..(i - 1) : terms[j] # terms[i]}
    IN  [k \in 1..Cardinality(firsts) |->
           terms[CHOOSE i \in firsts : Cardinality({j \in firsts : j < i}) = k - 1]]

\* C29: after every sequence of add_document calls forward and docs have the
\* same length N; inverted, id_to_term and term_to_id have the same size T;
\* term_to_id and id_to_term are inverse of each other over the ids 0..T-1;
\* the termIds of the forward lists are below T and the docIds of the
\* posting lists below N; total_len is the sum of the doc_len of the
\* documents; and a further add_document keeps the ids of the known terms
\* and gives the new terms the next ids in the order it meets them.
C29_WriterConsistent ==
    LET N == Len(writer.docs)
        T == Len(writer.id_to_term)
    IN  /\ Len(writer.forward) = N
        /\ Len(writer.inverted) = T
        /\ Cardinality(DOMAIN writer.term_to_id) = T
        /\ \A term \in DOMAIN writer.term_to_id :
              /\ writer.term_to_id[term] \in 0..(T - 1)
              /\ writer.id_to_term[writer.term_to_id[term] + 1] = term
        /\ \A id \in 0..(T - 1) :
              /\ writer.id_to_term[id + 1] \in DOMAIN writer.term_to_id
              /\ writer.term_to_id[writer.id_to_term[id + 1]] = id
        /\ \A d \in DOMAIN writer.forward :
              \A i \in DOMAIN writer.forward[d] : writer.forward[d][i][1] < T
        /\ \A tid \in DOMAIN writer.inverted :
              \A i \in DOMAIN writer.inverted[tid] : writer.inverted[tid][i].docId < N
        /\ writer.total_len = SumDocLen(writer.docs)
        /\ \A term_freqs \in TermFreqs :
              LET w2 == add_document(writer, DocMeta(N, term_freqs), term_freqs)
                  new == NewTerms(writer, term_freqs)
              IN  /\ \A term \in DOMAIN writer.term_to_id :
                        w2.term_to_id[term] = writer.term_to_id[term]
                  /\ Len(w2.id_to_term) = T + Len(new)
                  /\ \A k \in DOMAIN new : w2.term_to_id[new[k]] = T + k - 1

\* the writer holds two documents and three terms, the second document
\* having brought one known and one new term
C29_Witness ==
    /\ Len(writer.docs) = 2
    /\ Len(writer.id_to_term) = 3
    /\ Len(writer.forward[2]) = 2
    /\ writer.forward[2][1][1] < 2
    /\ writer.forward[2][2][1] = 2

\* the values a file must hold for the records its first value announces
Announced(file, width) ==
    IF file.data = <<>> THEN 1 ELSE 1 + width * file.data[1]

\* a file of the segment ends before the records it announces
ShortFile(files) ==
    \/ Len(files.stats.data) < 2
    \/ Len(files.docs.data) < Announced(files.docs, 4)
    \/ \E b \in DOMAIN files.lexicon : Len(files.lexicon[b].data) < Announced(files.lexicon[b], 5)

\* N of stats.bin is not the number of records docs.bin announces
CountsDisagree(files) ==
    /\ files.stats.data # <<>> /\ files.docs.data # <<>>
    /\ files.stats.data[1] # files.docs.data[1]

\* C19: load_segment returns false when stats.bin, docs.bin or a lexicon
\* file ends before the records it announces are read, and when N of
\* stats.bin differs from the record count of docs.bin.
C19_CorruptSegmentFailsLoad ==
    (seg.state = "loaded" /\ (ShortFile(segfiles) \/ CountsDisagree(segfiles)))
        => ~seg.ok

(***************************************************************************)
(* Properties of reload, search and the single-document append.            *)
(***************************************************************************)
\* the `found` of a search response, -1 when the response has none
OutFound(out) == IF "found" \in DOMAIN out THEN out.found ELSE -1

\* C3: once a successful reload has replaced the loaded segment list, every
\* search answers with the `found` and `results` of the query over the
\* segments now loaded, also for a (query, K) cached before that reload
\* (stated for the runs without a file system failure).
C3_SearchSeesReloadedSegments ==
    (last.op = "search" /\ listChanged /\ faults = 0)
        => \E junk \in JunkFor(engine) :
              LET fresh == search_index(engine, last.out.query, last.out.k, junk)
              IN  /\ OutFound(last.out) = OutFound(fresh)
                  /\ last.out.results = fresh.results

\* C4: a reload that fails, of a serving engine whose seg_names name its
\* segments, leaves seg_names, segments, the autocomplete index, the
\* metadata map, the semantic index and the caches as they were, so
\* seg_names[i] still names segments[i].
C4_FailedReloadKeepsState ==
    [][(phase = "serving" /\ engine.seg_names = LoadedDirs(engine)
          /\ last'.reload = "failed" /\ last'.failed = "none")
         => /\ engine' = engine
            /\ caches' = caches
            /\ engine'.seg_names = LoadedDirs(engine')]_vars

\* C5: a successful append leaves the old manifest with one new name at the
\* end, and the list the engine holds after the reload that follows has the
\* list it held before as a prefix.
C5_AppendExtendsLists ==
    [][(last'.op = "add" /\ last'.status = 200 /\ last'.reload = "ok" /\ faults' = 0)
         => /\ load_manifest(manifest') = Append(load_manifest(manifest), last'.segment)
            /\ IsPrefix(LoadedDirs(engine), LoadedDirs(engine'))]_vars

\* C6: an append during which a file of the new segment cannot be opened
\* leaves the manifest unchanged.
C6_FailedWriteKeepsManifest ==
    [][(last'.op = "add" /\ last'.failed \in Files) => manifest' = manifest]_vars

\* C7: an append that writes a segment chooses a name that is not in the
\* manifest, not a directory loaded by the engine and not an existing
\* directory; it changes no existing directory, and the manifest never
\* lists a name twice.
C7_AppendWritesFreshDirectory ==
    [][(last'.op = "add" /\ last'.status = 200 /\ faults' = 0)
         => /\ last'.segment \notin Range(load_manifest(manifest))
            /\ last'.segment \notin Range(LoadedDirs(engine))
            /\ ~dirs[last'.segment].exists
            /\ \A n \in DirNames : dirs[n].exists => dirs'[n] = dirs[n]
            /\ NoDuplicates(load_manifest(manifest'))]_vars

(***************************************************************************)
(* The concurrency specification: the request threads of the HTTP server   *)
(* run their handlers statement by statement.  pc[t] is the statement      *)
(* thread t executes next; mtx is the thread that holds Engine::mtx.  The  *)
(* contents of the engine are left out: `rewritten` is the set of Engine   *)
(* members the reload in progress has assigned so far.                     *)
(***************************************************************************)
Kinds == {"search", "suggest", "reload", "add", "ai_summary", "health"}

FirstLabel(kind) ==
    CASE kind = "search" -> "search_lock"
      [] kind = "suggest" -> "suggest_lock"
      [] kind = "reload" -> "reload_log"
      [] kind = "add" -> "add_lock"
      [] kind = "ai_summary" -> "sum_lock"
      [] kind = "health" -> "health_segments"

\* the statements inside the lock_guard scope of each handler
SearchBody == {"search_get", "search_score", "search_hits", "search_put"}
SuggestBody == {"suggest_ac"}
ReloadBody ==
    {"reload_names", "reload_load", "reload_segments", "reload_ac",
     "reload_meta_clear", "reload_meta_load", "reload_sem", "reload_caches"}
AddBody == {"add_write"}
CriticalLabels == SearchBody \cup SuggestBody \cup ReloadBody \cup AddBody

\* the statements that read or write segments, seg_names, uid_to_meta or a cache
AccessLabels ==
    SearchBody \cup (ReloadBody \ {"reload_ac", "reload_sem"})
      \cup {"reload_log", "reload_report", "sum_get", "sum_meta", "sum_put",
            "health_segments"}

\* the statements that read uid_to_meta or segments
MetaOrSegmentsReads ==
    {"search_score", "search_hits", "reload_log", "reload_report", "sum_meta",
     "health_segments"}

\* a lock_guard that does not wait
can_lock_unguarded(t) == TRUE

\* std::lock_guard<std::mutex>: the constructor returns once the mutex is free
can_lock(t) == mtx = NoThread

\* where a thread continues when reload has returned: POST /api/reload goes
\* on to report engine.segments.size(), the append handler to its response
after_reload(kind) == IF kind = "reload" THEN "reload_report" ELSE "idle"

ConcInit ==
    /\ ToolIdle
    /\ AuxIdle
    /\ caches = [c \in CacheIds |-> EmptyCache]
    /\ cache_files = [c \in CacheIds |-> NoFile]
    /\ active = "search"
    /\ aiPending = [t \in AiThreads |-> NoKey]
    /\ lastOp = NoOp
    /\ touched = <<>>
    /\ IndexIdle
    /\ ConcIdle
    /\ UnitIdle

\* a request arrives on an idle thread
StartRequest(t, kind) ==
    /\ pc[t] = "idle"
    /\ req' = [req EXCEPT ![t] = kind]
    /\ pc' = [pc EXCEPT ![t] = FirstLabel(kind)]
    /\ UNCHANGED <<mtx, rewritten, cacheVars, indexVars, unitVars, toolVars, auxVars>>

\* Engine::search takes the lock
SearchLock(t) ==
    /\ pc[t] = "search_lock"
    /\ can_lock(t)
    /\ mtx' = t
    /\ pc' = [pc EXCEPT ![t] = "search_get"]
    /\ UNCHANGED <<req, rewritten, cacheVars, indexVars, unitVars, toolVars, auxVars>>

\* the cache lookup: a hit returns, and so does a query without usable
\* terms after looking at segments (the lock_guard scope ends); otherwise
\* the segments are scored
SearchGet(t) ==
    /\ pc[t] = "search_get"
    /\ \E next \in {"idle", "search_score"} :
          /\ pc' = [pc EXCEPT ![t] = next]
          /\ mtx' = IF next = "idle" THEN NoThread ELSE mtx
    /\ UNCHANGED <<req, rewritten, cacheVars, indexVars, unitVars, toolVars, auxVars>>

\* the postings of every segment are scored
SearchScore(t) ==
    /\ pc[t] = "search_score"
    /\ pc' = [pc EXCEPT ![t] = "search_hits"]
    /\ UNCHANGED <<mtx, req, rewritten, cacheVars, indexVars, unitVars, toolVars, auxVars>>

\* the hits are turned into results from segments, seg_names and uid_to_meta
SearchHits(t) ==
    /\ pc[t] = "search_hits"
    /\ pc' = [pc EXCEPT ![t] = "search_put"]
    /\ UNCHANGED <<mtx, req, rewritten, cacheVars, indexVars, unitVars, toolVars, auxVars>>

\* the result is cached and search returns
SearchPut(t) ==
    /\ pc[t] = "search_put"
    /\ mtx' = NoThread
    /\ pc' = [pc EXCEPT ![t] = "idle"]
    /\ UNCHANGED <<req, rewritten, cacheVars, indexVars, unitVars, toolVars, auxVars>>

\* Engine::suggest takes the lock
SuggestLock(t) ==
    /\ pc[t] = "suggest_lock"
    /\ can_lock(t)
    /\ mtx' = t
    /\ pc' = [pc EXCEPT ![t] = "suggest_ac"]
    /\ UNCHANGED <<req, rewritten, cacheVars, indexVars, unitVars, toolVars, auxVars>>

\* the autocomplete index is queried and suggest returns
SuggestAc(t) ==
    /\ pc[t] = "suggest_ac"
    /\ mtx' = NoThread
    /\ pc' = [pc EXCEPT ![t] = "idle"]
    /\ UNCHANGED <<req, rewritten, cacheVars, indexVars, unitVars, toolVars, auxVars>>

\* Engine::reload: the log line reads uid_to_meta.size() before the lock
ReloadLog(t) ==
    /\ pc[t] = "reload_log"
    /\ pc' = [pc EXCEPT ![t] = "reload_lock"]
    /\ UNCHANGED <<mtx, req, rewritten, cacheVars, indexVars, unitVars, toolVars, auxVars>>

ReloadLock(t) ==
    /\ pc[t] = "reload_lock"
    /\ can_lock(t)
    /\ mtx' = t
    /\ pc' = [pc EXCEPT ![t] = "reload_names"]
    /\ UNCHANGED <<req, rewritten, cacheVars, indexVars, unitVars, toolVars, auxVars>>

\* seg_names is assigned from the manifest or the directory scan
ReloadNames(t) ==
    /\ pc[t] = "reload_names"
    /\ rewritten' = rewritten \cup {"seg_names"}
    /\ pc' = [pc EXCEPT ![t] = "reload_load"]
    /\ UNCHANGED <<mtx, req, cacheVars, indexVars, unitVars, toolVars, auxVars>>

\* the listed segments are loaded into a local vector
ReloadLoad(t) ==
    /\ pc[t] = "reload_load"
    /\ pc' = [pc EXCEPT ![t] = "reload_segments"]
    /\ UNCHANGED <<mtx, req, rewritten, cacheVars, indexVars, unitVars, toolVars, auxVars>>

\* no names, or a segment that does not load: reload returns false
ReloadFail(t) ==
    /\ pc[t] = "reload_load"
    /\ mtx' = NoThread
    /\ rewritten' = {}
    /\ pc' = [pc EXCEPT ![t] = after_reload(req[t])]
    /\ UNCHANGED <<req, cacheVars, indexVars, unitVars, toolVars, auxVars>>

ReloadSegments(t) ==
    /\ pc[t] = "reload_segments"
    /\ rewritten' = rewritten \cup {"segments"}
    /\ pc' = [pc EXCEPT ![t] = "reload_ac"]
    /\ UNCHANGED <<mtx, req, cacheVars, indexVars, unitVars, toolVars, auxVars>>

ReloadAc(t) ==
    /\ pc[t] = "reload_ac"
    /\ rewritten' = rewritten \cup {"ac"}
    /\ pc' = [pc EXCEPT ![t] = "reload_meta_clear"]
    /\ UNCHANGED <<mtx, req, cacheVars, indexVars, unitVars, toolVars, auxVars>>

ReloadMetaClear(t) ==
    /\ pc[t] = "reload_meta_clear"
    /\ rewritten' = rewritten \cup {"uid_to_meta"}
    /\ pc' = [pc EXCEPT ![t] = "reload_meta_load"]
    /\ UNCHANGED <<mtx, req, cacheVars, indexVars, unitVars, toolVars, auxVars>>

ReloadMetaLoad(t) ==
    /\ pc[t] = "reload_meta_load"
    /\ rewritten' = rewritten \cup {"uid_to_meta"}
    /\ pc' = [pc EXCEPT ![t] = "reload_sem"]
    /\ UNCHANGED <<mtx, req, cacheVars, indexVars, unitVars, toolVars, auxVars>>

ReloadSem(t) ==
    /\ pc[t] = "reload_sem"
    /\ rewritten' = rewritten \cup {"sem"}
    /\ pc' = [pc EXCEPT ![t] = "reload_caches"]
    /\ UNCHANGED <<mtx, req, cacheVars, indexVars, unitVars, toolVars, auxVars>>

\* the three caches are loaded and reload returns true
ReloadCaches(t) ==
    /\ pc[t] = "reload_caches"
    /\ mtx' = NoThread
    /\ rewritten' = {}
    /\ pc' = [pc EXCEPT ![t] = after_reload(req[t])]
    /\ UNCHANGED <<req, cacheVars, indexVars, unitVars, toolVars, auxVars>>

\* POST /api/reload reports engine.segments.size() after reload has returned
ReloadReport(t) ==
    /\ pc[t] = "reload_report"
    /\ pc' = [pc EXCEPT ![t] = "idle"]
    /\ UNCHANGED <<mtx, req, rewritten, cacheVars, indexVars, unitVars, toolVars, auxVars>>

\* handle_add_document takes the lock
AddLock(t) ==
    /\ pc[t] = "add_lock"
    /\ can_lock(t)
    /\ mtx' = t
    /\ pc' = [pc EXCEPT ![t] = "add_write"]
    /\ UNCHANGED <<req, rewritten, cacheVars, indexVars, unitVars, toolVars, auxVars>>

\* the append handler with a lock()/unlock() pair in place of the lock_guard
\* and no unlock() before the return of a rejected request
AddWrite_returns_locked(t) ==
    /\ pc[t] = "add_write"
    /\ \E next \in {"idle", "reload_log"} :
          /\ pc' = [pc EXCEPT ![t] = next]
          /\ mtx' = IF next = "idle" THEN mtx ELSE NoThread
    /\ UNCHANGED <<req, rewritten, cacheVars, indexVars, unitVars, toolVars, auxVars>>

\* the segment files and the manifest are written; a rejected request
\* returns, an accepted one leaves the scope and calls reload
AddWrite(t) ==
    /\ pc[t] = "add_write"
    /\ mtx' = NoThread
    /\ \E next \in {"idle", "reload_log"} : pc' = [pc EXCEPT ![t] = next]
    /\ UNCHANGED <<req, rewritten, cacheVars, indexVars, unitVars, toolVars, auxVars>>

\* generate_ai_summary takes the lock for the cache lookup
SumLock(t) ==
    /\ pc[t] = "sum_lock"
    /\ can_lock(t)
    /\ mtx' = t
    /\ pc' = [pc EXCEPT ![t] = "sum_get"]
    /\ UNCHANGED <<req, rewritten, cacheVars, indexVars, unitVars, toolVars, auxVars>>

\* a hit returns; on a miss the lock_guard scope ends before the metadata
\* lookup
SumGet(t) ==
    /\ pc[t] = "sum_get"
    /\ mtx' = NoThread
    /\ \E next \in {"idle", "sum_meta"} : pc' = [pc EXCEPT ![t] = next]
    /\ UNCHANGED <<req, rewritten, cacheVars, indexVars, unitVars, toolVars, auxVars>>

\* uid_to_meta.find and uid_to_meta.at: unknown uid or no abstract returns
SumMeta(t) ==
    /\ pc[t] = "sum_meta"
    /\ \E next \in {"idle", "sum_llm"} : pc' = [pc EXCEPT ![t] = next]
    /\ UNCHANGED <<mtx, req, rewritten, cacheVars, indexVars, unitVars, toolVars, auxVars>>

\* the request to the LLM: a failure returns
SumLlm(t) ==
    /\ pc[t] = "sum_llm"
    /\ \E next \in {"idle", "sum_put_lock"} : pc' = [pc EXCEPT ![t] = next]
    /\ UNCHANGED <<mtx, req, rewritten, cacheVars, indexVars, unitVars, toolVars, auxVars>>

SumPutLock(t) ==
    /\ pc[t] = "sum_put_lock"
    /\ can_lock(t)
    /\ mtx' = t
    /\ pc' = [pc EXCEPT ![t] = "sum_put"]
    /\ UNCHANGED <<req, rewritten, cacheVars, indexVars, unitVars, toolVars, auxVars>>

\* the summary is cached
SumPut(t) ==
    /\ pc[t] = "sum_put"
    /\ mtx' = NoThread
    /\ pc' = [pc EXCEPT ![t] = "idle"]
    /\ UNCHANGED <<req, rewritten, cacheVars, indexVars, unitVars, toolVars, auxVars>>

\* GET /api/health reports engine.segments.size()
Health(t) ==
    /\ pc[t] = "health_segments"
    /\ pc' = [pc EXCEPT ![t] = "idle"]
    /\ UNCHANGED <<mtx, req, rewritten, cacheVars, indexVars, unitVars, toolVars, auxVars>>

ConcNext ==
    \E t \in Threads :
        \/ \E kind \in Kinds : StartRequest(t, kind)
        \/ SearchLock(t) \/ SearchGet(t) \/ SearchScore(t) \/ SearchHits(t) \/ SearchPut(t)
        \/ SuggestLock(t) \/ SuggestAc(t)
        \/ ReloadLog(t) \/ ReloadLock(t) \/ ReloadNames(t) \/ ReloadLoad(t) \/ ReloadFail(t)
        \/ ReloadSegments(t) \/ ReloadAc(t) \/ ReloadMetaClear(t) \/ ReloadMetaLoad(t)
        \/ ReloadSem(t) \/ ReloadCaches(t) \/ ReloadReport(t)
        \/ AddLock(t) \/ AddWrite(t)
        \/ SumLock(t) \/ SumGet(t) \/ SumMeta(t) \/ SumLlm(t) \/ SumPutLock(t) \/ SumPut(t)
        \/ Health(t)

SpecConc == ConcInit /\ [][ConcNext]_vars

\* the statements at which a thread waits for Engine::mtx
LockLabels ==
    {"search_lock", "suggest_lock", "reload_lock", "add_lock", "sum_lock", "sum_put_lock"}

\* a lock_guard constructor of thread t returns
ThreadLocks(t) ==
    \/ SearchLock(t) \/ SuggestLock(t) \/ ReloadLock(t) \/ AddLock(t)
    \/ SumLock(t) \/ SumPutLock(t)

\* thread t executes a statement of the handler it is in
ThreadRuns(t) ==
    \/ SearchGet(t) \/ SearchScore(t) \/ SearchHits(t) \/ SearchPut(t)
    \/ SuggestAc(t)
    \/ ReloadLog(t) \/ ReloadNames(t) \/ ReloadLoad(t) \/ ReloadFail(t)
    \/ ReloadSegments(t) \/ ReloadAc(t) \/ ReloadMetaClear(t) \/ ReloadMetaLoad(t)
    \/ ReloadSem(t) \/ ReloadCaches(t) \/ ReloadReport(t)
    \/ AddWrite(t)
    \/ SumGet(t) \/ SumMeta(t) \/ SumLlm(t) \/ SumPut(t)
    \/ Health(t)

\* fair scheduling: a thread inside a handler keeps executing, and a thread
\* that waits for the mutex and finds it free again and again takes it at
\* some point.  Requests may stop arriving.
SpecConcFair ==
    /\ ConcInit
    /\ [][ConcNext]_vars
    /\ \A t \in Threads : WF_vars(ThreadRuns(t)) /\ SF_vars(ThreadLocks(t))

\* the same with weak fairness for the lock_guard constructor as well
SpecConcWeak ==
    /\ ConcInit
    /\ [][ConcNext]_vars
    /\ \A t \in Threads : WF_vars(ThreadRuns(t)) /\ WF_vars(ThreadLocks(t))

(***************************************************************************)
(* Properties of the engine mutex.                                         *)
(***************************************************************************)
InCritical(t) == pc[t] \in CriticalLabels

InReload(t) == pc[t] \in ReloadBody

C9_SharedStateUnderMutex ==
    /\ \A t \in Threads : pc[t] \in AccessLabels => mtx = t
    /\ \A t, u \in Threads :
          (t # u /\ pc[t] \in MetaOrSegmentsReads) => ~InReload(u)

(***************************************************************************)
(* Properties of the scoring loop of Engine::search                        *)
(***************************************************************************)
Min(a, b) == IF a < b THEN a ELSE b

HitsReturned == {srch.hits[i] : i \in DOMAIN srch.hits}

\* C15: with K the clamped k and M the matches accumulated over all
\* segments, a search that runs the scoring loop returns exactly min(K, |M|)
\* hits, all of them different matches, in non-increasing score order; no
\* match left out scores higher than a returned one; and the heap never
\* holds more than K hits.
C15_TopKHits ==
    /\ srch.pc # "idle" => Cardinality(srch.pq) <= srch.K
    /\ srch.pc = "done" =>
          /\ Len(srch.hits) = Min(srch.K, Cardinality(srch.matches))
          /\ Cardinality(HitsReturned) = Len(srch.hits)
          /\ HitsReturned \subseteq srch.matches
          /\ \A i, j \in DOMAIN srch.hits : i < j => srch.hits[i].s >= srch.hits[j].s
          /\ \A m \in srch.matches \ HitsReturned :
                \A i \in DOMAIN srch.hits : m.s <= srch.hits[i].s

\* a finished search with more matches than K, one of the matches left out
\* scoring as much as the last hit returned
C15_Witness ==
    /\ srch.pc = "done"
    /\ srch.K = 2
    /\ Cardinality(srch.matches) > srch.K
    /\ \E m \in srch.matches \ HitsReturned : m.s = srch.hits[Len(srch.hits)].s

\* the documents of the stream written by w in which one of the terms occurs
DocsMatching(w, terms) ==
    {docId \in 0..(Len(w.docs) - 1) :
       \E i \in DOMAIN w.forward[docId + 1] :
          w.id_to_term[w.forward[docId + 1][i][1] + 1] \in terms}

RECURSIVE SumMatching(_, _, _)
SumMatching(ws, terms, n) ==
    IF n = 0 THEN 0
    ELSE SumMatching(ws, terms, n - 1) + Cardinality(DocsMatching(ws[n], terms))

QueryTerms == {srch.qterms_w[i] : i \in DOMAIN srch.qterms_w}

\* C16: the found value of a search that runs the scoring loop is the sum,
\* over the loaded segments, of the number of documents of the segment in
\* which at least one weighted query term occurs, whatever k is; a document
\* present in two segments counts once per segment.
C16_FoundIsSumOverSegments ==
    srch.pc = "done" => srch.total_found = SumMatching(writer, QueryTerms, Len(writer))

\* a finished search over two segments built from the same documents: each
\* matching document is counted in both, and more are found than k asks for
C16_Witness ==
    /\ srch.pc = "done"
    /\ Len(writer) = 2
    /\ writer[1] = writer[2]
    /\ srch.K = 1
    /\ DocsMatching(writer[1], QueryTerms) # {}
    /\ srch.total_found = 2 * Cardinality(DocsMatching(writer[1], QueryTerms))

(***************************************************************************)
(* Properties of the request handlers                                      *)
(***************************************************************************)
\* C17: the answer to a search whose query keeps no token after the length
\* and stopword filters holds query, k (clamped), segments, an empty results
\* array and found = 0.
C17_NoTokensAnswer ==
    (last.op = "search" /\ ~last.from_cache /\ base_terms(last.out.query) = <<>>)
       => /\ {"query", "k", "segments", "results", "found"} \subseteq DOMAIN last.out
          /\ last.out.k \in 1..100
          /\ last.out.segments = Len(engine.segments)
          /\ last.out.results = {}
          /\ last.out.found = 0

\* the directories that exist under segments/
SegmentDirs(d) == {name \in DirNames : d[name].exists}

\* C18: an add-document request answered with status 400 leaves the
\* manifest, the set of directories under segments/ and the state of the
\* engine as they were.
C18_BadInputChangesNothing ==
    [][(last'.op = "add" /\ last'.status = 400)
         => /\ manifest' = manifest
            /\ SegmentDirs(dirs') = SegmentDirs(dirs)
            /\ engine' = engine]_vars

C23_AppendedSegment ==
    seg.state = "loaded" =>
        LET T == Cardinality(DOMAIN writer.tf)
            fwd == ForwardRecords(segfiles.forward.data, 2, segfiles.forward.data[1])
        IN  /\ seg.ok
            /\ seg.s.N = 1
            /\ seg.s.avgdl = <<writer.doc_len, 1>>
            /\ seg.s.docs[1].doc_len = writer.doc_len
            /\ DOMAIN seg.s.lex = DOMAIN writer.tf
            /\ \A term \in DOMAIN seg.s.lex :
                  /\ seg.s.lex[term].df = 1
                  /\ seg.s.lex[term].count = 1
                  /\ \A junk \in JunkValues :
                        read_postings(seg.s.inv_barrels, seg.s.lex[term], junk)
                          = <<[docId |-> 0, tf |-> writer.tf[term]]>>
            /\ Len(fwd) = 1
            /\ [i \in DOMAIN fwd[1] |-> fwd[1][i][1]] = [i \in 1..T |-> i - 1]
            /\ \A i \in 1..T :
                  fwd[1][i][2] = writer.tf[segfiles.terms.data[fwd[1][i][1] + 2]]

\* a document of three terms, two of them in one barrel, one of them
\* occurring twice, was appended and loaded
C23_Witness ==
    /\ seg.state = "loaded"
    /\ Cardinality(DOMAIN writer.tf) = 3
    /\ \E t \in DOMAIN writer.tf : writer.tf[t] = 2
    /\ \E t, u \in DOMAIN seg.s.lex :
          t # u /\ seg.s.lex[t].barrelId = seg.s.lex[u].barrelId

(***************************************************************************)
(* Properties of the slice upload                                          *)
(***************************************************************************)
\* C30: a segment whose stats.bin was written by the slice builder loads
\* with avgdl equal to the mean doc_len of its documents: avgdl * N is the
\* sum of doc_len over the documents.  (avgdl is kept as the pair
\* <<numerator, denominator>> of the value written.)
C30_SliceAvgdlIsMean ==
    (seg.state = "loaded" /\ seg.ok) =>
        /\ seg.s.N = Len(writer.docs)
        /\ seg.s.avgdl[1] * seg.s.N = SumDocLen(writer.docs) * seg.s.avgdl[2]

(***************************************************************************)
(* The semantic expander: SemanticIndex of backend/semantic_embedding.cpp. *)
(* load_from_text stores every vector L2-normalized.  A stored vector      *)
(* <<x, y>> stands for (x/5, y/5, 0, ...): every fixture has x*x + y*y =   *)
(* 25, so dot products are cosines in units of 1/25.  Arithmetic is exact: *)
(* the number n / sqrt(q) is the record [n, q].  Similarities are in units *)
(* of 1/25, weights in units of 1/125, alpha in units of 1/5.              *)
(***************************************************************************)
MaxSemRows == 3
MaxBaseTerms == 2

Real(n, q) == [n |-> n, q |-> q]
signed_square(n) == IF n < 0 THEN -(n * n) ELSE n * n
real_less(x, y) ==
    IF x.q = y.q THEN x.n < y.n
    ELSE signed_square(x.n) * y.q < signed_square(y.n) * x.q
real_min(x, y) == IF real_less(y, x) THEN y ELSE x
real_max(x, y) == IF real_less(x, y) THEN y ELSE x

\* the lines of the embeddings file that pass the filters of load_from_text
SemRows ==
    << [term |-> "alpha", vec |-> <<5, 0>>],
       [term |-> "beta",  vec |-> <<5, 0>>],
       [term |-> "gamma", vec |-> <<3, 4>>],
       [term |-> "delta", vec |-> <<0, 5>>],
       [term |-> "omega", vec |-> <<-5, 0>>],
       [term |-> "alpha", vec |-> <<4, 3>>] >>

RECURSIVE rows_of(_, _)
rows_of(S, i) ==
    IF i > Len(SemRows) THEN <<>>
    ELSE (IF i \in S THEN <<SemRows[i]>> ELSE <<>>) \o rows_of(S, i + 1)

\* load_from_text: terms and vecs row by row; enabled when a row was loaded
load_from_text(S) ==
    LET rows == rows_of(S, 1)
    IN  [enabled |-> rows # <<>>,
         terms |-> [r \in DOMAIN rows |-> rows[r].term],
         vecs |-> [r \in DOMAIN rows |-> rows[r].vec]]

SemIndexes ==
    {load_from_text(S) : S \in {T \in SUBSET DOMAIN SemRows : Cardinality(T) <= MaxSemRows}}

BaseWords == {"alpha", "gamma", "omega", "zeta"}
BaseTermLists ==
    UNION {[1..n -> BaseWords] : n \in 0..MaxBaseTerms}
\* alpha, in fifths
Alphas == {0, 3, 5}
\* min_sim, in units of 1/25
MinSims == {0, 14}
PerTerms == {1, 3}
GlobalTopks == {0, 2}
MaxTotals == {0, 1, 3}

dot(a, b) == a[1] * b[1] + a[2] * b[2]

\* term_to_row: emplace keeps the first row of a word
has_row(ix, t) == \E r \in DOMAIN ix.terms : ix.terms[r] = t
term_to_row(ix, t) ==
    CHOOSE r \in DOMAIN ix.terms :
       ix.terms[r] = t /\ \A o \in DOMAIN ix.terms : ix.terms[o] = t => r <= o

\* most_similar_to_vec: the rows it can return for the similarities sims.
\* Among rows of equal similarity at the cut the heap layout decides which
\* is kept; every choice is allowed here.
most_similar_to_vec(ix, sims, topk, min_sim, banned_rows) ==
    IF ~ix.enabled \/ topk <= 0 THEN {{}}
    ELSE LET ok == {r \in DOMAIN ix.terms :
                       r \notin banned_rows /\ ~real_less(sims[r], min_sim)}
             k == IF Cardinality(ok) < topk THEN Cardinality(ok) ELSE topk
         IN  {nn \in SUBSET ok :
                /\ Cardinality(nn) = k
                /\ \A r \in nn, o \in ok \ nn : ~real_less(sims[r], sims[o])}

\* w[cand] = weight unless w holds cand with at least that weight
keep_max(w, cand, weight) ==
    IF cand \in DOMAIN w /\ ~real_less(w[cand], weight) THEN w
    ELSE [c \in DOMAIN w \cup {cand} |-> IF c = cand THEN weight ELSE w[c]]

\* the loop over the neighbours nn; weights[r] is the weight of row r
RECURSIVE add_neighbours(_, _, _, _)
add_neighbours(ix, w, nn, weights) ==
    IF nn = {} THEN w
    ELSE LET r == CHOOSE o \in nn : \A p \in nn : o <= p
         IN  add_neighbours(ix, keep_max(w, ix.terms[r], weights[r]), nn \ {r}, weights)

\* max(0, min(alpha, alpha * sim)), in units of 1/125
per_term_weight(alpha, sim) ==
    real_max(Real(0, 1), real_min(Real(25 * alpha, 1), Real(alpha * sim.n, sim.q)))
\* max(0, min(alpha * 0.8, alpha * 0.8 * sim)), in units of 1/125
global_weight(alpha, sim) ==
    real_max(Real(0, 1), real_min(Real(20 * alpha, 1), Real(4 * alpha * sim.n, 25 * sim.q)))

\* the per-term loop of expand from query_terms[i] on: the maps it can end with
RECURSIVE per_term_expansion(_, _, _, _, _, _, _, _)
per_term_expansion(ix, query_terms, i, ws, per_term, min_sim, alpha, banned) ==
    IF i > Len(query_terms) THEN ws
    ELSE IF ~has_row(ix, query_terms[i])
         THEN per_term_expansion(ix, query_terms, i + 1, ws, per_term, min_sim, alpha, banned)
         ELSE LET v == ix.vecs[term_to_row(ix, query_terms[i])]
                  sims == [r \in DOMAIN ix.terms |-> Real(dot(v, ix.vecs[r]), 1)]
                  weights == [r \in DOMAIN ix.terms |-> per_term_weight(alpha, sims[r])]
                  next == {add_neighbours(ix, w, nn, weights) :
                              w \in ws,
                              nn \in most_similar_to_vec(ix, sims, per_term, min_sim, banned)}
              IN  per_term_expansion(ix, query_terms, i + 1, next, per_term, min_sim, alpha, banned)

RECURSIVE sum_vecs(_, _, _)
sum_vecs(ix, query_terms, i) ==
    IF i > Len(query_terms) THEN <<0, 0>>
    ELSE LET rest == sum_vecs(ix, query_terms, i + 1)
         IN  IF has_row(ix, query_terms[i])
             THEN LET v == ix.vecs[term_to_row(ix, query_terms[i])]
                  IN  <<v[1] + rest[1], v[2] + rest[2]>>
             ELSE rest

\* the cosine of row r and the mean of the base vectors: l2_normalize leaves
\* a zero mean as it is, and every dot product with it is 0
centroid_sims(ix, query_terms) ==
    LET q == sum_vecs(ix, query_terms, 1)
    IN  [r \in DOMAIN ix.terms |->
            IF dot(q, q) = 0 THEN Real(0, 1)
            ELSE Real(5 * dot(q, ix.vecs[r]), dot(q, q))]

global_expansion(ix, query_terms, ws, global_topk, min_sim, alpha, banned) ==
    IF global_topk <= 0 \/ \A i \in DOMAIN query_terms : ~has_row(ix, query_terms[i])
    THEN ws
    ELSE LET sims == centroid_sims(ix, query_terms)
             weights == [r \in DOMAIN ix.terms |-> global_weight(alpha, sims[r])]
         IN  {add_neighbours(ix, w, nn, weights) :
                 w \in ws,
                 nn \in most_similar_to_vec(ix, sims, global_topk, min_sim, banned)}

\* the vectors expand can return for the map w: the entries in an order
\* std::sort can leave them in (any order among equal weights), cut to
\* max_total_terms; without the sort, in any order and uncut
sorted_outputs(w, sorted, max_total_terms) ==
    LET n == Cardinality(DOMAIN w)
        orders == {o \in [1..n -> DOMAIN w] :
                     /\ \A i, j \in 1..n : i # j => o[i] # o[j]
                     /\ sorted => \A i \in 1..(n - 1) : ~real_less(w[o[i]], w[o[i + 1]])}
        m == IF sorted /\ n > max_total_terms THEN max_total_terms ELSE n
    IN  {[i \in 1..m |-> [term |-> o[i], weight |-> w[o[i]]]] : o \in orders}

\* SemanticIndex::expand: the vectors it can return
expand(ix, query_terms, per_term, global_topk, min_sim, alpha, max_total_terms) ==
    LET w0 == [t \in Range(query_terms) |-> Real(125, 1)]
    IN  IF ~ix.enabled \/ query_terms = <<>>
        THEN sorted_outputs(w0, FALSE, max_total_terms)
        ELSE LET banned == {term_to_row(ix, t) : t \in {u \in Range(query_terms) : has_row(ix, u)}}
                 ws1 == per_term_expansion(ix, query_terms, 1, {w0}, per_term, min_sim, alpha, banned)
                 ws2 == global_expansion(ix, query_terms, ws1, global_topk, min_sim, alpha, banned)
             IN  UNION {sorted_outputs(w, TRUE, max_total_terms) : w \in ws2}

NoExpand == [state |-> "none"]

SemInit ==
    /\ EngineIdle
    /\ sem \in SemIndexes
    /\ semCall = NoExpand
    /\ row = <<>>
    /\ stats = <<>>
    /\ dec = <<>>
    /\ feedback = <<>>
    /\ adding = <<>>
    /\ bm = <<>>

\* one call of sem.expand
Expand(query_terms, per_term, global_topk, min_sim, alpha, max_total_terms) ==
    /\ \E out \in expand(sem, query_terms, per_term, global_topk, Real(min_sim, 1),
                         alpha, max_total_terms) :
          semCall' = [state |-> "expanded", query_terms |-> query_terms,
                      min_sim |-> min_sim, alpha |-> alpha,
                      max_total_terms |-> max_total_terms, out |-> out]
    /\ UNCHANGED <<sem, row, stats, dec, feedback, adding, bm,
                   cacheVars, indexVars, concVars, unitVars, toolVars>>

SemNext ==
    /\ semCall = NoExpand
    /\ \E query_terms \in BaseTermLists, per_term \in PerTerms, global_topk \in GlobalTopks,
          min_sim \in MinSims, alpha \in Alphas, max_total_terms \in MaxTotals :
          Expand(query_terms, per_term, global_topk, min_sim, alpha, max_total_terms)

SpecSem == SemInit /\ [][SemNext]_vars

(***************************************************************************)
(* csv_row of src/api_metadata.cpp on single rows without newlines.        *)
(***************************************************************************)
MaxRowLen == 5

RowChars == {"a", ",", "\""}
RowLines == UNION {[1..n -> RowChars] : n \in 0..MaxRowLen}

NoRow == [state |-> "none"]

RowInit ==
    /\ EngineIdle
    /\ sem = <<>>
    /\ semCall = <<>>
    /\ row = NoRow
    /\ stats = <<>>
    /\ dec = <<>>
    /\ feedback = <<>>
    /\ adding = <<>>
    /\ bm = <<>>

\* std::getline hands a row to csv_row
SplitRow(line) ==
    /\ row' = [state |-> "split", line |-> line, cols |-> csv_row(line)]
    /\ UNCHANGED <<sem, semCall, stats, dec, feedback, adding, bm,
                   cacheVars, indexVars, concVars, unitVars, toolVars>>

RowNext == \E line \in RowLines : SplitRow(line)

SpecRow == RowInit /\ [][RowNext]_vars

(***************************************************************************)
(* StatsTracker::decrement_ai_api_calls of include/api_stats.hpp, called   *)
(* by the AI handlers from the server's request threads.  remaining and    *)
(* used are std::atomic; every load, compare-exchange and increment is one *)
(* step.                                                                   *)
(***************************************************************************)
MaxQuota == 2
MaxDecrements == 4

StatThreads == {"s1", "s2", "s3"}
NoHolder == "none"

StatsInit ==
    /\ EngineIdle
    /\ sem = <<>>
    /\ semCall = <<>>
    /\ row = <<>>
    /\ \E r \in 0..MaxQuota :
          stats = [ai_api_calls_remaining_ |-> r, ai_api_calls_used_ |-> 0,
                   file_mutex_ |-> NoHolder,
                   stats_file_ |-> [ai_api_calls_remaining |-> r, ai_api_calls_used |-> 0],
                   quota |-> r, started |-> 0, completed |-> 0, retried |-> 0]
    /\ dec = [t \in StatThreads |-> [pc |-> "idle", current |-> 0]]
    /\ feedback = <<>>
    /\ adding = <<>>
    /\ bm = <<>>

StatsRest ==
    <<sem, semCall, row, feedback, adding, bm,
      cacheVars, indexVars, concVars, unitVars, toolVars>>

\* int64_t current = ai_api_calls_remaining_.load();
DecLoad(t) ==
    /\ dec[t].pc = "idle"
    /\ stats.started < MaxDecrements
    /\ dec' = [dec EXCEPT ![t] = [pc |-> "loop", current |-> stats.ai_api_calls_remaining_]]
    /\ stats' = [stats EXCEPT !.started = @ + 1]
    /\ UNCHANGED StatsRest

\* the loop with a plain store in place of the compare-exchange
DecStore(t) ==
    /\ dec[t].pc = "loop"
    /\ IF dec[t].current > 0
       THEN /\ stats' = [stats EXCEPT !.ai_api_calls_remaining_ = dec[t].current - 1]
            /\ dec' = [dec EXCEPT ![t].pc = "count"]
       ELSE /\ stats' = [stats EXCEPT !.completed = @ + 1]
            /\ dec' = [dec EXCEPT ![t].pc = "idle"]
    /\ UNCHANGED StatsRest

\* while (current > 0) { if (compare_exchange_weak(current, current - 1)) ...
\* The exchange fails when the counter is no longer current, and may fail
\* spuriously; a failed exchange loads the counter into current.
DecCas(t) ==
    /\ dec[t].pc = "loop"
    /\ IF dec[t].current > 0
       THEN \/ /\ stats.ai_api_calls_remaining_ = dec[t].current
               /\ stats' = [stats EXCEPT !.ai_api_calls_remaining_ = dec[t].current - 1]
               /\ dec' = [dec EXCEPT ![t].pc = "count"]
            \/ /\ dec' = [dec EXCEPT ![t].current = stats.ai_api_calls_remaining_]
               /\ stats' = [stats EXCEPT !.retried =
                               IF stats.ai_api_calls_remaining_ # dec[t].current THEN 1 ELSE @]
       ELSE /\ stats' = [stats EXCEPT !.completed = @ + 1]
            /\ dec' = [dec EXCEPT ![t].pc = "idle"]
    /\ UNCHANGED StatsRest

\* ai_api_calls_used_++;
DecCount(t) ==
    /\ dec[t].pc = "count"
    /\ stats' = [stats EXCEPT !.ai_api_calls_used_ = @ + 1]
    /\ dec' = [dec EXCEPT ![t].pc = "save"]
    /\ UNCHANGED StatsRest

\* save_to_file: std::lock_guard<std::mutex> lock(file_mutex_);
DecSaveLock(t) ==
    /\ dec[t].pc = "save"
    /\ stats.file_mutex_ = NoHolder
    /\ stats' = [stats EXCEPT !.file_mutex_ = t]
    /\ dec' = [dec EXCEPT ![t].pc = "write"]
    /\ UNCHANGED StatsRest

\* save_to_file: the counters are loaded and written, the lock is released
DecSaveWrite(t) ==
    /\ dec[t].pc = "write"
    /\ stats' = [stats EXCEPT
                   !.stats_file_ = [ai_api_calls_remaining |-> stats.ai_api_calls_remaining_,
                                    ai_api_calls_used |-> stats.ai_api_calls_used_],
                   !.file_mutex_ = NoHolder,
                   !.completed = @ + 1]
    /\ dec' = [dec EXCEPT ![t].pc = "idle"]
    /\ UNCHANGED StatsRest

StatsNext ==
    \E t \in StatThreads :
       \/ DecLoad(t)
       \/ DecCas(t)
       \/ DecCount(t)
       \/ DecSaveLock(t)
       \/ DecSaveWrite(t)

SpecStats == StatsInit /\ [][StatsNext]_vars

(***************************************************************************)
(* FeedbackManager of src/api_feedback.cpp: add_feedback from the request  *)
(* threads, load_from_file in the constructor.  An entry is a number: the  *)
(* entries of the file found at start are 101, 102, ..., the entries added *)
(* by requests 1, 2, ... in the order of their push_back.                  *)
(***************************************************************************)
MAX_FEEDBACK_ENTRIES == 2
MaxFeedback == 4

FeedbackThreads == {"f1", "f2"}

FileEntries(n) == [i \in 1..n |-> 100 + i]
FeedbackFiles ==
    {[kind |-> "missing", entries |-> <<>>], [kind |-> "unparsable", entries |-> <<>>],
     [kind |-> "no_entries", entries |-> <<>>]}
    \cup {[kind |-> "entries", entries |-> FileEntries(n)] : n \in 0..(MAX_FEEDBACK_ENTRIES + 2)}

\* the trim that drops the newest entries
RECURSIVE trim_newest(_)
trim_newest(entries) ==
    IF Len(entries) > MAX_FEEDBACK_ENTRIES
    THEN trim_newest(SubSeq(entries, 1, Len(entries) - 1))
    ELSE entries

\* while (feedback_entries_.size() > MAX_FEEDBACK_ENTRIES) pop_front();
RECURSIVE trim_oldest(_)
trim_oldest(entries) ==
    IF Len(entries) > MAX_FEEDBACK_ENTRIES THEN trim_oldest(Tail(entries)) ELSE entries

\* load_from_file into the empty deque of a new FeedbackManager
load_feedback(file) ==
    IF file.kind = "entries" THEN trim_oldest(file.entries) ELSE <<>>

\* the constructor: the state of a manager that starts on this file
started_on(file, next) ==
    [feedback_entries_ |-> load_feedback(file), mutex_ |-> NoHolder,
     feedback_file_ |-> file,
     arrived |-> IF file.kind = "entries" THEN file.entries ELSE <<>>,
     next |-> next]

FeedbackInit ==
    /\ EngineIdle
    /\ sem = <<>>
    /\ semCall = <<>>
    /\ row = <<>>
    /\ stats = <<>>
    /\ dec = <<>>
    /\ \E file \in FeedbackFiles : feedback = started_on(file, 1)
    /\ adding = [t \in FeedbackThreads |-> "idle"]
    /\ bm = <<>>

FeedbackRest ==
    <<sem, semCall, row, stats, dec, bm,
      cacheVars, indexVars, concVars, unitVars, toolVars>>

\* add_feedback: std::lock_guard<std::mutex> lock(mutex_);
AddFeedbackLock(t) ==
    /\ adding[t] = "idle"
    /\ feedback.mutex_ = NoHolder
    /\ feedback.next <= MaxFeedback
    /\ feedback' = [feedback EXCEPT !.mutex_ = t]
    /\ adding' = [adding EXCEPT ![t] = "locked"]
    /\ UNCHANGED FeedbackRest

\* add_feedback under the lock: push_back, trim, save_to_file (which leaves
\* the file as it is when it cannot be opened), return
AddFeedback(t) ==
    /\ adding[t] = "locked"
    /\ LET entries == trim_oldest(Append(feedback.feedback_entries_, feedback.next))
       IN  \E saved \in BOOLEAN :
              feedback' = [feedback EXCEPT
                             !.feedback_entries_ = entries,
                             !.arrived = Append(@, feedback.next),
                             !.next = @ + 1,
                             !.feedback_file_ =
                                 IF saved THEN [kind |-> "entries", entries |-> entries] ELSE @,
                             !.mutex_ = NoHolder]
    /\ adding' = [adding EXCEPT ![t] = "idle"]
    /\ UNCHANGED FeedbackRest

\* the server is started again on the file the last one left
FeedbackRestart ==
    /\ \A t \in FeedbackThreads : adding[t] = "idle"
    /\ feedback' = started_on(feedback.feedback_file_, feedback.next)
    /\ UNCHANGED adding
    /\ UNCHANGED FeedbackRest

FeedbackNext ==
    \/ \E t \in FeedbackThreads : AddFeedbackLock(t) \/ AddFeedback(t)
    \/ FeedbackRestart

SpecFeedback == FeedbackInit /\ [][FeedbackNext]_vars

(***************************************************************************)
(* The BM25 term score of Engine::search in the arithmetic of the build:   *)
(* IEEE-754 binary32, every operation rounded to nearest, ties to even.    *)
(* The float m * 2^e is the record [m, e] with 2^23 <= m < 2^24; zero is   *)
(* [0, 0].  Every operand here is finite and not negative.                 *)
(***************************************************************************)
Float(m, e) == [m |-> m, e |-> e]
FloatZero == Float(0, 0)
FloatOne == Float(8388608, -23)
FloatHalf == Float(8388608, -24)

\* the number of bits of n, 0 < n < 2^30
bit_length(n) == CHOOSE len \in 1..30 : 2^(len - 1) <= n /\ n < 2^len

\* the float nearest to (n + f) * 2^e, where 0 < f < 1 when sticky and f = 0
\* otherwise; n has at least 26 bits when sticky
round_to_float(n, e, sticky) ==
    IF n = 0 THEN FloatZero
    ELSE LET len == bit_length(n)
         IN  IF len <= 24 THEN Float(n * 2^(24 - len), e - (24 - len))
             ELSE LET shift == len - 24
                      q == n \div 2^shift
                      rem == n % 2^shift
                      half == 2^(shift - 1)
                      up == rem > half \/ (rem = half /\ (sticky \/ q % 2 = 1))
                      m == IF up THEN q + 1 ELSE q
                  IN  IF m = 16777216 THEN Float(8388608, e + shift + 1)
                      ELSE Float(m, e + shift)

\* (float)n for an unsigned n below 2^30
from_u32(n) == round_to_float(n, 0, FALSE)

float_less(x, y) ==
    IF y.m = 0 THEN FALSE
    ELSE IF x.m = 0 THEN TRUE
    ELSE x.e < y.e \/ (x.e = y.e /\ x.m < y.m)

\* x + y
float_add(x, y) ==
    IF x.m = 0 THEN y
    ELSE IF y.m = 0 THEN x
    ELSE LET big == IF float_less(x, y) THEN y ELSE x
             small == IF float_less(x, y) THEN x ELSE y
             d == big.e - small.e
             low == IF d > 27 THEN 0 ELSE (small.m * 8) \div 2^d
             sticky == IF d > 27 THEN TRUE ELSE (small.m * 8) % 2^d # 0
         IN  round_to_float(big.m * 8 + low, big.e - 3, sticky)

\* x * y: the 48-bit product of the mantissas in two halves, hi * 2^24 + lo
float_mul(x, y) ==
    IF x.m = 0 \/ y.m = 0 THEN FloatZero
    ELSE LET a1 == x.m \div 4096
             a0 == x.m % 4096
             b1 == y.m \div 4096
             b0 == y.m % 4096
             mid == a1 * b0 + a0 * b1
             low == (mid % 4096) * 4096 + a0 * b0
             hi == a1 * b1 + mid \div 4096 + low \div 16777216
             lo == low % 16777216
         IN  round_to_float(hi * 4 + lo \div 4194304, x.e + y.e + 22, lo % 4194304 # 0)

\* the long division of r * 2^n by d after the quotient bits q: quotient and
\* remainder
RECURSIVE divide_bits(_, _, _, _)
divide_bits(q, r, d, n) ==
    IF n = 0 THEN [q |-> q, r |-> r]
    ELSE IF 2 * r >= d THEN divide_bits(2 * q + 1, 2 * r - d, d, n - 1)
    ELSE divide_bits(2 * q, 2 * r, d, n - 1)

\* x / y, y not zero
float_div(x, y) ==
    IF x.m = 0 THEN FloatZero
    ELSE LET res == divide_bits(x.m \div y.m, x.m % y.m, y.m, 26)
         IN  round_to_float(res.q, x.e - y.e - 26, res.r # 0)

\* std::log at the arguments bm25_idf passes here, as the build's
\* library returns them
LogTable ==
    { [x |-> Float(11184811, -23), y |-> Float(9653010, -25)],
      [x |-> Float(8388608, -22), y |-> Float(11629080, -24)],
      [x |-> Float(10066330, -23), y |-> Float(12235395, -26)],
      [x |-> Float(11184810, -22), y |-> Float(16455583, -24)],
      [x |-> Float(13421773, -23), y |-> Float(15770705, -25)],
      [x |-> Float(9586981, -23), y |-> Float(8961143, -26)],
      [x |-> Float(13981013, -22), y |-> Float(10099656, -23)],
      [x |-> Float(11983726, -23), y |-> Float(11968026, -25)],
      [x |-> Float(9320676, -23), y |-> Float(14141255, -27)],
      [x |-> Float(15435656, -17), y |-> Float(10000665, -21)],
      [x |-> Float(11184812, -1), y |-> Float(16291642, -20)],
      [x |-> Float(8388610, -23), y |-> Float(16777214, -46)],
      [x |-> Float(8388608, -23), y |-> Float(0, 0)] }

log(x) == (CHOOSE entry \in LogTable : entry.x = x).y

\* bm25_idf; N - df is an unsigned subtraction and df <= N here
bm25_idf(N, df) ==
    log(float_add(float_div(float_add(from_u32(N - df), FloatHalf),
                            float_add(from_u32(df), FloatHalf)),
                  FloatOne))

\* const float k1 = 1.2f; const float b = 0.75f; and 1.0f - b, which is exact
bm25_k1 == Float(10066330, -23)
bm25_b == Float(12582912, -24)
one_minus_b == Float(8388608, -25)

\* denom and s of the posting loop, for idf, tf and dl = (float)doc_len
bm25_term(idf, tf, doc_len, avgdl) ==
    LET dl == from_u32(doc_len)
        denom == float_add(from_u32(tf),
                           float_mul(bm25_k1, float_add(one_minus_b,
                                                   float_mul(bm25_b, float_div(dl, avgdl)))))
    IN  float_div(float_mul(idf, float_mul(from_u32(tf), float_add(bm25_k1, FloatOne))), denom)

\* seg.N and e.df
IdfPairs ==
    {p \in (1..4) \X (1..4) : p[2] <= p[1]}
    \cup {<<1000, 8>>, <<8388608, 1>>, <<8388608, 8388607>>, <<8388608, 8388608>>}
TfValues == {1, 2, 3, 1861, 1862}
DocLens == {1, 2, 3}
\* seg.avgdl
Avgdls == {from_u32(1), from_u32(2), from_u32(150)}

NoScore == [state |-> "none"]

BmInit ==
    /\ EngineIdle
    /\ sem = <<>>
    /\ semCall = <<>>
    /\ row = <<>>
    /\ stats = <<>>
    /\ dec = <<>>
    /\ feedback = <<>>
    /\ adding = <<>>
    /\ bm = NoScore

BmRest ==
    <<sem, semCall, row, stats, dec, feedback, adding,
      cacheVars, indexVars, concVars, unitVars, toolVars>>

\* a term of the query is found in the lexicon: idf = bm25_idf(seg.N, e.df)
ScoreTerm(N, df, avgdl) ==
    /\ bm.state = "none"
    /\ bm' = [state |-> "term", N |-> N, df |-> df, avgdl |-> avgdl,
              idf |-> bm25_idf(N, df)]
    /\ UNCHANGED BmRest

\* one posting of the term is scored; prev keeps the posting before it
ScorePosting(tf, doc_len) ==
    /\ bm.state # "none"
    /\ bm' = [state |-> "posting", N |-> bm.N, df |-> bm.df, avgdl |-> bm.avgdl,
              idf |-> bm.idf, tf |-> tf, doc_len |-> doc_len,
              s |-> bm25_term(bm.idf, tf, doc_len, bm.avgdl),
              prev |-> IF bm.state = "posting"
                       THEN [tf |-> bm.tf, doc_len |-> bm.doc_len, s |-> bm.s]
                       ELSE [tf |-> 0, doc_len |-> 0, s |-> FloatZero]]
    /\ UNCHANGED BmRest

BmNext ==
    \/ /\ bm.state = "none"
       /\ \E p \in IdfPairs, avgdl \in Avgdls : ScoreTerm(p[1], p[2], avgdl)
    \/ /\ bm.state # "none"
       /\ \E tf \in TfValues, doc_len \in DocLens : ScorePosting(tf, doc_len)

SpecBm == BmInit /\ [][BmNext]_vars

(***************************************************************************)
(* Properties of the autocomplete index                                    *)
(***************************************************************************)
\* the keys of the map whose normalized term is kept and starts with p
KeysWithPrefix(term_score, p) ==
    {key \in DOMAIN term_score :
        LET term == normalize_token(key)
        IN  Len(term) >= 2 /\ Len(p) <= Len(term) /\ SubSeq(term, 1, Len(p)) = p}

\* key1 ranks before key2: higher score, or the same score and smaller term
RanksBefore(term_score, key1, key2) ==
    \/ term_score[key1] > term_score[key2]
    \/ /\ term_score[key1] = term_score[key2]
       /\ string_less(normalize_token(key1), normalize_token(key2))

\* the first n terms starting with p in the order (score desc, term asc):
\* the k-th is the term of a key with fewer than k keys before it and at
\* least k keys not after it
RankedTerms(term_score, p, n) ==
    LET keys == KeysWithPrefix(term_score, p)
    IN  [k \in 1..Min(n, Cardinality(keys)) |->
           normalize_token(
             CHOOSE key \in keys :
                /\ Cardinality({j \in keys : RanksBefore(term_score, j, key)}) < k
                /\ k <= Cardinality({j \in keys : ~RanksBefore(term_score, key, j)}))]

\* every node's top list holds at most max_top_ candidates, in the order
\* (score desc, term asc)
TopListsSorted ==
    \A n \in DOMAIN ac.nodes_ :
       LET top == ac.nodes_[n].top
       IN  /\ Len(top) <= ac.max_top_
           /\ \A i, j \in DOMAIN top : i < j => ~cand_before(top[j], top[i], ac.terms_)

\* C21 as stated: for every prefix p that is a path of the trie, the empty
\* path to the root included, suggest_query(p, limit) returns the first
\* min(limit, max_top) terms that start with p in the order (score desc,
\* term asc), and every node's top list is that short and in that order.
C21_TopKEveryPath ==
    (acCall.state = "suggested" /\ normalize_token(acCall.user_input) = acCall.user_input) =>
        /\ acCall.out = RankedTerms(acCall.term_score, acCall.user_input,
                                    Min(acCall.limit, ac.max_top_))
        /\ TopListsSorted

\* C21 for the prefixes of at least one character: as above
C21_TopKNonEmptyPrefix ==
    (/\ acCall.state = "suggested"
     /\ normalize_token(acCall.user_input) = acCall.user_input
     /\ acCall.user_input # <<>>) =>
        /\ acCall.out = RankedTerms(acCall.term_score, acCall.user_input,
                                    Min(acCall.limit, ac.max_top_))
        /\ TopListsSorted

\* three terms start with "ab", two of them with the same score; the limit
\* is 3 and max_top_ is 2, and two suggestions were returned
C21_Witness ==
    /\ acCall.state = "suggested"
    /\ acCall.user_input = <<"a", "b">>
    /\ acCall.limit = 3
    /\ ac.max_top_ = 2
    /\ Len(acCall.out) = 2
    /\ LET keys == KeysWithPrefix(acCall.term_score, <<"a", "b">>)
       IN  /\ Cardinality(keys) = 3
           /\ \E j, k \in keys : j # k /\ acCall.term_score[j] = acCall.term_score[k]

(***************************************************************************)
(* Properties of the metadata map                                          *)
(***************************************************************************)
\* the offsets at which a data row of the file starts: after every newline
\* that is not the last byte (offset 0 is the header)
DataRowStarts(bytes) == {i \in 1..(Len(bytes) - 1) : bytes[i] = LF}

\* the bytes of the row that starts at offset s, without its newline
RowAt(bytes, s) ==
    LET stops == {i \in (s + 1)..Len(bytes) : bytes[i] = LF} \cup {Len(bytes) + 1}
    IN  SubSeq(bytes, s + 1, (CHOOSE i \in stops : \A j \in stops : i <= j) - 1)

\* the cord_uid column of the row at offset s, <<>> when the row has too few
\* columns
UidAt(bytes, s) ==
    LET header == csv_row(RowAt(bytes, 0))
        uid_i == CHOOSE i \in DOMAIN header : header[i] = CordUidName
        r == csv_row(RowAt(bytes, s))
    IN  IF Len(r) < uid_i THEN <<>> ELSE r[uid_i]

\* C22: for every cord_uid of the loaded map, file_offset is the byte
\* position of the first data row whose cord_uid column is that uid, rows
\* with an empty cord_uid or too few columns before it notwithstanding;
\* every data row with a cord_uid has its uid in the map; and the columns
\* fetch_metadata reads at file_offset are the columns of that row.
C22_OffsetsRoundTrip ==
    /\ fetched.state # "unloaded" =>
          /\ \A uid \in DOMAIN uid_to_meta :
                LET at == uid_to_meta[uid].file_offset
                IN  /\ uid # <<>>
                    /\ at \in DataRowStarts(csv)
                    /\ UidAt(csv, at) = uid
                    /\ \A s \in DataRowStarts(csv) : s < at => UidAt(csv, s) # uid
          /\ CordUidName \in Range(csv_row(RowAt(csv, 0))) =>
                \A s \in DataRowStarts(csv) :
                   UidAt(csv, s) # <<>> => UidAt(csv, s) \in DOMAIN uid_to_meta
    /\ fetched.state = "fetched" =>
          LET first == CHOOSE s \in DataRowStarts(csv) :
                          /\ UidAt(csv, s) = fetched.uid
                          /\ \A t \in DataRowStarts(csv) : t < s => UidAt(csv, t) # fetched.uid
          IN  /\ fetched.ok
              /\ fetched.r = csv_row(RowAt(csv, first))

\* the fetched cord_uid has two rows, after a row that was skipped
C22_Witness ==
    /\ fetched.state = "fetched"
    /\ Cardinality({s \in DataRowStarts(csv) : UidAt(csv, s) = fetched.uid}) = 2
    /\ \E s \in DataRowStarts(csv) :
          s < uid_to_meta[fetched.uid].file_offset /\ UidAt(csv, s) = <<>>

(***************************************************************************)
(* Properties of the search over short inverted files                      *)
(***************************************************************************)
\* the postings of entry e that lie wholly inside the inverted file and name
\* a document of the segment
WholePostings(s, e) ==
    LET data == s.inv_barrels[e.barrelId + 1].data
        at == e.offset \div 4
        whole == {i \in 1..e.count : at + 2 * i <= Len(data)
                                       /\ data[at + 2 * i - 1] < Len(s.docs)}
    IN  [docId \in {data[at + 2 * i - 1] : i \in whole} |->
           LET i == CHOOSE i \in whole : data[at + 2 * i - 1] = docId
           IN  data[at + 2 * i]]

\* the score map of segment s when only whole postings contribute: the sum
\* over the query terms of the value of the document's posting
RECURSIVE ScoreOfWhole(_, _, _)
ScoreOfWhole(s, qterms_w, n) ==
    IF n = 0 THEN <<>>
    ELSE LET score == ScoreOfWhole(s, qterms_w, n - 1)
             term == qterms_w[n]
             mine == IF term \in DOMAIN s.lex /\ s.lex[term].df # 0
                     THEN WholePostings(s, s.lex[term]) ELSE <<>>
         IN  [d \in DOMAIN score \cup DOMAIN mine |->
                (IF d \in DOMAIN score THEN score[d] ELSE 0)
                  + (IF d \in DOMAIN mine THEN mine[d] ELSE 0)]

\* C31: a posting whose read runs past the end of the inverted file, or
\* whose docId is not below the number of documents of the segment,
\* contributes nothing: the score map of the segment is the one of the whole
\* postings, and docs is indexed only below its size.
C31_ShortReadContributesNothing ==
    srch.pc = "push" =>
        LET s == engine.segments[srch.segId + 1]
        IN  /\ srch.score = ScoreOfWhole(s, srch.qterms_w, Len(srch.qterms_w))
            /\ \A docId \in srch.indexed : docId < Len(s.docs)

(***************************************************************************)
(* Properties of the choice of the segment format                          *)
(***************************************************************************)
\* C32: with stats.bin and docs.bin present, load_segment loads the
\* barrelized format exactly when barrels.bin, inverted_b000.bin and
\* lexicon_b000.bin all exist, and then succeeds only if every barrel file
\* opens, the legacy files playing no part; otherwise it loads lexicon.bin
\* and inverted.bin and succeeds exactly when both open.
C32_FormatByPresence ==
    (seg.state = "loaded" /\ segfiles.stats.exists /\ segfiles.docs.exists) =>
        IF segfiles.barrels.exists /\ segfiles.inverted[1].exists /\ segfiles.lexicon[1].exists
        THEN /\ seg.s.use_barrels
             /\ seg.ok <=> \A b \in 1..BARREL_COUNT :
                              segfiles.inverted[b].exists /\ segfiles.lexicon[b].exists
             /\ seg.ok => DOMAIN seg.s.lex = DOMAIN writer.term_to_id
             /\ "delta" \notin DOMAIN seg.s.lex
             /\ seg.s.inv = NoSuchFile
        ELSE /\ ~seg.s.use_barrels
             /\ seg.ok <=> (segfiles.lexicon_bin.exists /\ segfiles.inverted_bin.exists)
             /\ seg.ok => (DOMAIN seg.s.lex = {"delta"} /\ seg.s.inv = LegacyInverted)

\* a directory with the barrel-0 files, a later barrel file missing and both
\* legacy files present: the load has failed
C32_Witness ==
    /\ seg.state = "loaded"
    /\ segfiles.stats.exists /\ segfiles.docs.exists
    /\ segfiles.barrels.exists /\ segfiles.inverted[1].exists /\ segfiles.lexicon[1].exists
    /\ ~segfiles.lexicon[2].exists
    /\ segfiles.lexicon_bin.exists /\ segfiles.inverted_bin.exists
    /\ ~seg.ok

(***************************************************************************)
(* Properties of Engine::suggest                                           *)
(***************************************************************************)
\* the last alphanumeric run of the input is input[RunStart + 1 .. RunEnd]
RunEnd(input) ==
    IF \A i \in DOMAIN input : ~isalnum(input[i]) THEN 0
    ELSE CHOOSE e \in DOMAIN input :
            isalnum(input[e]) /\ \A i \in (e + 1)..Len(input) : ~isalnum(input[i])

RunStart(input) ==
    CHOOSE b \in 0..RunEnd(input) :
       /\ \A i \in (b + 1)..RunEnd(input) : isalnum(input[i])
       /\ b = 0 \/ ~isalnum(input[b])

\* C33: every suggestion is the input text before the last alphanumeric
\* run followed by an indexed term whose normalized form starts with the
\* normalized run; there are at most clamp(k, 1, 10) suggestions; and there
\* is none when the input has no alphanumeric character or no indexed term
\* starts with the normalized run.
C33_SuggestCompletesLastRun ==
    acCall.state = "answered" =>
        LET input == acCall.user_input
            out == acCall.answer.suggestions
            base == SubSeq(input, 1, RunStart(input))
            run == normalize_token(SubSeq(input, RunStart(input) + 1, RunEnd(input)))
            keys == KeysWithPrefix(acCall.term_score, run)
        IN  /\ \A i \in DOMAIN out :
                  \E key \in keys : out[i] = base \o normalize_token(key)
            /\ Len(out) <= (IF acCall.k > 10 THEN 10 ELSE IF acCall.k < 1 THEN 1 ELSE acCall.k)
            /\ (RunEnd(input) = 0 \/ keys = {}) => out = <<>>

\* the input "b a" with k = 2: two suggestions, each "b " followed by a term
C33_Witness ==
    /\ acCall.state = "answered"
    /\ acCall.user_input = <<"b", " ", "a">>
    /\ acCall.k = 2
    /\ Len(acCall.answer.suggestions) = 2
    /\ acCall.answer.suggestions[1] # acCall.answer.suggestions[2]

(***************************************************************************)
(* Properties of the semantic expander                                     *)
(***************************************************************************)
\* a row of term cand is within min_sim of the vector of a base term or of
\* the mean of the base vectors
NearBase(ix, query_terms, cand, min_sim) ==
    \E r \in DOMAIN ix.terms :
       /\ ix.terms[r] = cand
       /\ \/ \E t \in Range(query_terms) :
                /\ has_row(ix, t)
                /\ dot(ix.vecs[term_to_row(ix, t)], ix.vecs[r]) >= min_sim
          \/ /\ \E t \in Range(query_terms) : has_row(ix, t)
             /\ ~real_less(centroid_sims(ix, query_terms)[r], Real(min_sim, 1))

\* C34: for alpha <= 1 the output of expand has at most max_total_terms
\* entries and no term twice; a term that is no base term has a weight in
\* [0, alpha] and a row within min_sim of a base vector or of the base
\* centroid; and when the distinct base terms number at most
\* max_total_terms each of them is in the output with weight 1.0.
C34_ExpandOutput ==
    (semCall.state = "expanded" /\ semCall.alpha <= 5) =>
        LET out == semCall.out
            base == Range(semCall.query_terms)
        IN  /\ Len(out) <= semCall.max_total_terms
            /\ \A i, j \in DOMAIN out : i # j => out[i].term # out[j].term
            /\ \A i \in DOMAIN out :
                  out[i].term \notin base =>
                     /\ ~real_less(out[i].weight, Real(0, 1))
                     /\ ~real_less(Real(25 * semCall.alpha, 1), out[i].weight)
                     /\ NearBase(sem, semCall.query_terms, out[i].term, semCall.min_sim)
            /\ Cardinality(base) <= semCall.max_total_terms =>
                  \A t \in base :
                     \E i \in DOMAIN out : out[i] = [term |-> t, weight |-> Real(125, 1)]

(***************************************************************************)
(* Properties of csv_row                                                   *)
(***************************************************************************)
\* The fields of a CSV row as the format defines them: a field that opens
\* with a quote runs to the closing quote, a doubled quote inside it is one
\* quote character and a comma inside it is part of the field.  st is
\* "start" at the start of a field, "plain" in an unquoted field, "quoted"
\* in a quoted field and "quote" after a quote inside a quoted field.
RECURSIVE csv_fields(_, _, _, _, _)
csv_fields(line, i, st, cur, out) ==
    IF i > Len(line)
    THEN [ok |-> st # "quoted", cols |-> Append(out, cur)]
    ELSE LET c == line[i]
         IN  CASE st = "start" ->
                    IF c = "\"" THEN csv_fields(line, i + 1, "quoted", <<>>, out)
                    ELSE IF c = "," THEN csv_fields(line, i + 1, "start", <<>>, Append(out, <<>>))
                    ELSE csv_fields(line, i + 1, "plain", <<c>>, out)
               [] st = "plain" ->
                    IF c = "\"" THEN [ok |-> FALSE, cols |-> <<>>]
                    ELSE IF c = "," THEN csv_fields(line, i + 1, "start", <<>>, Append(out, cur))
                    ELSE csv_fields(line, i + 1, "plain", Append(cur, c), out)
               [] st = "quoted" ->
                    IF c = "\"" THEN csv_fields(line, i + 1, "quote", cur, out)
                    ELSE csv_fields(line, i + 1, "quoted", Append(cur, c), out)
               [] OTHER ->
                    IF c = "\"" THEN csv_fields(line, i + 1, "quoted", Append(cur, c), out)
                    ELSE IF c = "," THEN csv_fields(line, i + 1, "start", <<>>, Append(out, cur))
                    ELSE [ok |-> FALSE, cols |-> <<>>]

\* C35: for a well-formed row, csv_row returns the fields of the row, with
\* a doubled quote inside a quoted field as one quote character and a comma
\* inside a quoted field as part of the field.
C35_QuotedFields ==
    row.state = "split" =>
        LET fields == csv_fields(row.line, 1, "start", <<>>, <<>>)
        IN  fields.ok => row.cols = fields.cols

(***************************************************************************)
(* Properties of the AI call quota                                         *)
(***************************************************************************)
\* the calls in progress: past the first load and not yet returned
InProgress == Cardinality({t \in StatThreads : dec[t].pc # "idle"})
Floor0(n) == IF n < 0 THEN 0 ELSE n

\* C36: the remaining quota is never negative, and no decrement is lost:
\* with n calls completed and none in progress, remaining = max(0, r - n)
\* and used = min(n, r); while k calls are in progress each counter is at
\* most k away from that value, on the side of the decrements under way.
C36_QuotaExact ==
    LET r == stats.quota
        n == stats.completed
        k == InProgress
    IN  /\ stats.ai_api_calls_remaining_ >= 0
        /\ stats.ai_api_calls_remaining_ <= Floor0(r - n)
        /\ stats.ai_api_calls_remaining_ >= Floor0(r - n - k)
        /\ stats.ai_api_calls_used_ >= Min(n, r) - k
        /\ stats.ai_api_calls_used_ <= Min(n + k, r)

\* four calls on a quota of two have completed, one of them after a failed
\* exchange against another thread
C36_Witness ==
    /\ stats.quota = 2
    /\ stats.completed = 4
    /\ InProgress = 0
    /\ stats.retried = 1
    /\ stats.ai_api_calls_remaining_ = 0
    /\ stats.ai_api_calls_used_ = 2

(***************************************************************************)
(* Properties of the feedback store                                        *)
(***************************************************************************)
\* the last n elements of seq, all of it when it is shorter
LastOf(seq, n) == SubSeq(seq, Floor0(Len(seq) - n) + 1, Len(seq))

\* C37: the store holds at most MAX_FEEDBACK_ENTRIES entries, and they are
\* the most recent of the entries loaded from the file and added since, in
\* the order of their arrival.
C37_NewestKept ==
    /\ Len(feedback.feedback_entries_) <= MAX_FEEDBACK_ENTRIES
    /\ feedback.feedback_entries_ = LastOf(feedback.arrived, MAX_FEEDBACK_ENTRIES)

\* a file with more entries than the cap was loaded, two entries have been
\* added since, and the store holds the newest entries only
C37_Witness ==
    /\ Len(feedback.arrived) > MAX_FEEDBACK_ENTRIES + 2
    /\ feedback.arrived[1] = 101
    /\ feedback.arrived[Len(feedback.arrived)] = 2
    /\ Len(feedback.feedback_entries_) = MAX_FEEDBACK_ENTRIES
    /\ feedback.feedback_entries_[Len(feedback.feedback_entries_)] = 2

(***************************************************************************)
(* Properties of the BM25 term score                                       *)
(***************************************************************************)
\* C38: with N, df, doc_len and avgdl fixed a larger tf never gives a
\* smaller score; with N fixed a larger df never gives a larger idf; and idf
\* is strictly positive for 1 <= df <= N.
C38_ScoreMonotone ==
    /\ (bm.state = "posting" /\ bm.prev.doc_len = bm.doc_len /\ bm.prev.tf < bm.tf) =>
          ~float_less(bm.s, bm.prev.s)
    /\ bm.state # "none" =>
          /\ \A p \in IdfPairs :
                (p[1] = bm.N /\ p[2] > bm.df) => ~float_less(bm.idf, bm25_idf(p[1], p[2]))
          /\ float_less(FloatZero, bm.idf)

=============================================================================
